---- MODULE Spec2Model ----
(***************************************************************************)
(* A model of the card-battle session server (matchmaking queue, game      *)
(* session engine, reconnection manager, abuse guard, periodic sweep).     *)
(*                                                                         *)
(* Every handler of the server runs to completion before the next event    *)
(* is dispatched, so each handler is one operator from a server state to   *)
(* the server state it leaves behind, and one action of the model.  The    *)
(* server state is the record St of the module's variables.                *)
(*                                                                         *)
(* JavaScript object identity: createNewGame stores the two client         *)
(* objects themselves in game.players, so a participant's deck,            *)
(* battlefield and dead pile are held once, in the game record; the        *)
(* registry entry of a connection keeps the scalar fields the server       *)
(* reads through the registry (id, supabaseId, isGuest, gameId).           *)
(***************************************************************************)
EXTENDS Integers, Sequences, FiniteSets, TLC

\* ------------------------------------------------------------------ bounds
MaxSockets == 3      \* connections opened in one run (socket ids 1..MaxSockets)
MaxGames == 2        \* sessions created in one run (game ids 1..MaxGames)
MaxMoves == 1        \* attacks and moves sent in one run of the lobby
MaxTicks == 2        \* clock advances in one run
MaxBurst == 2        \* actions one connection sends at one clock value
MaxEvents == 3       \* attacks and moves sent to the session engine in one run
MaxReplays == 2      \* disconnect events delivered a second time in one run
MaxActions == 7      \* attacks and moves sent to the abuse guard in one run
MaxLapses == 2       \* clock advances between the actions sent to the abuse guard
MaxReturns == 1      \* connections opened after the plan of a run with grace periods
MaxStrikes == 2      \* attacks sent after the plan of a run with grace periods

\* ------------------------------------------------------- program constants
RECONNECTION_TIMEOUT == 30000
RATE_LIMIT_WINDOW == 1000
MAX_ACTIONS_PER_WINDOW == 5
SWEEP_INTERVAL == 30000

\* Date.now() when the server starts, and the step of the model's clock.
StartTime == RECONNECTION_TIMEOUT * 10
TickMs == RECONNECTION_TIMEOUT \div 2

\* ------------------------------------------------------------ absent values
NoSock == 0          \* no connection id
NoGame == 0          \* no game id
Null == "null"       \* null / undefined identity
UndefIdx == 0 - 1    \* an undefined catalog index
NoCard == [index |-> 0 - 2, hp |-> 0 - 2]     \* an empty battlefield slot
Slots == 0 .. 3

Min(S) == CHOOSE x \in S : \A y \in S : x <= y
\* A delete that leaves the key in place.
RemoveNothing(f, k) == f

\* Map.delete
Remove(f, k) == [x \in DOMAIN f \ {k} |-> f[x]]
Put(f, k, v) == [x \in DOMAIN f \cup {k} |-> IF x = k THEN v ELSE f[x]]
RemoveAt(s, i) == [k \in 1 .. Len(s) - 1 |-> IF k < i THEN s[k] ELSE s[k + 1]]
Contains(s, x) == \E i \in 1 .. Len(s) : s[i] = x

\* ----------------------------------------------------------------- catalog
\* The static card table (lib/config `strains`): one card per quota slot.
\* Every card has the numeric stats thc and cbd; cbd of the last card is 0.
\* "Strain" is the card's name, a field that is not a number.
Classes == <<"Legendary", "Epic", "Ultra Rare", "Rare", "Uncommon", "Uncommon", "Common", "Common">>
FullCatalog == [i \in 0 .. 7 |->
    [Class |-> Classes[i + 1], thc |-> 250, cbd |-> IF i = 7 THEN 0 ELSE 125]]

\* The table without its card k: the rarity bucket of that card is one short.
Without(k) == [i \in 0 .. 6 |-> FullCatalog[IF i < k THEN i ELSE i + 1]]
ShortCatalogs == {Without(k) : k \in 0 .. 7}

\* A table with a second Legendary, Rare, Uncommon and Common card.
RichCatalog == [i \in 0 .. 11 |->
    IF i <= 7 THEN FullCatalog[i]
    ELSE [Class |-> <<"Legendary", "Rare", "Uncommon", "Common">>[i - 7],
          thc |-> 250, cbd |-> 125]]

\* The table the server was started with; no handler writes it.
VARIABLE catalog
strains == catalog
StatNames == {"thc", "cbd", "Strain"}

\* strain[detail.stat] when it is a number, else 0 (a string or undefined).
StatValue(strain, stat) ==
    IF stat = "thc" THEN strain.thc ELSE IF stat = "cbd" THEN strain.cbd ELSE 0

\* ------------------------------------------------------------ deck dealing
evaluateHP(index) ==
    IF index \in DOMAIN strains
    THEN LET c == strains[index].Class IN
         IF c = "Rare" THEN 150
         ELSE IF c = "Uncommon" THEN 120
         ELSE IF c = "Epic" THEN 200
         ELSE IF c = "Ultra Rare" THEN 175
         ELSE IF c = "Legendary" THEN 250
         ELSE 100
    ELSE 0

\* Math.floor(Math.random() * n) for a draw r: "lo" is 0, "hi" is just below 1.
RandomIndex(r, n) == IF n = 0 \/ r = "lo" THEN 0 ELSE n - 1

\* A pick that leaves the picked index in the bucket.
RECURSIVE pickRandomIndexesAgain(_, _, _)
pickRandomIndexesAgain(copy, count, rs) ==
    IF count = 0 THEN <<>>
    ELSE LET index == RandomIndex(Head(rs), Len(copy)) IN
         IF Len(copy) = 0
         THEN <<UndefIdx>> \o pickRandomIndexesAgain(copy, count - 1, Tail(rs))
         ELSE <<copy[index + 1]>> \o pickRandomIndexesAgain(copy, count - 1, Tail(rs))

RECURSIVE pickRandomIndexes(_, _, _)
pickRandomIndexes(copy, count, rs) ==
    IF count = 0 THEN <<>>
    ELSE LET index == RandomIndex(Head(rs), Len(copy)) IN
         IF Len(copy) = 0
         THEN <<UndefIdx>> \o pickRandomIndexes(copy, count - 1, Tail(rs))
         ELSE <<copy[index + 1]>>
                  \o pickRandomIndexes(RemoveAt(copy, index + 1), count - 1, Tail(rs))

\* for (i = length - 1; i > 0; i--) swap(array[i], array[j]); array is 1-based here
RECURSIVE shuffle(_, _, _)
shuffle(array, i, rs) ==
    IF i <= 0 THEN array
    ELSE LET j == RandomIndex(Head(rs), i + 1)
             swapped == [k \in 1 .. Len(array) |->
                            IF k = i + 1 THEN array[j + 1]
                            ELSE IF k = j + 1 THEN array[i + 1] ELSE array[k]]
         IN shuffle(swapped, i - 1, Tail(rs))

RECURSIVE IndexesOfClass(_, _)
IndexesOfClass(class, i) ==
    IF i \notin DOMAIN strains THEN <<>>
    ELSE (IF strains[i].Class = class THEN <<i>> ELSE <<>>) \o IndexesOfClass(class, i + 1)

byClass(class) == IndexesOfClass(class, 0)

\* seed: the 15 draws of Math.random() one deck consumes (8 picks, 7 swaps)
createFixedDeck(seed) ==
    LET selectedIndexes ==
            pickRandomIndexes(byClass("Legendary"), 1, SubSeq(seed, 1, 1))
            \o pickRandomIndexes(byClass("Epic"), 1, SubSeq(seed, 2, 2))
            \o pickRandomIndexes(byClass("Ultra Rare"), 1, SubSeq(seed, 3, 3))
            \o pickRandomIndexes(byClass("Rare"), 1, SubSeq(seed, 4, 4))
            \o pickRandomIndexes(byClass("Uncommon"), 2, SubSeq(seed, 5, 6))
            \o pickRandomIndexes(byClass("Common"), 2, SubSeq(seed, 7, 8))
        values == [k \in 1 .. Len(selectedIndexes) |->
                      [index |-> selectedIndexes[k], hp |-> evaluateHP(selectedIndexes[k])]]
    IN shuffle(values, Len(values) - 1, SubSeq(seed, 9, 15))

SeedLo == [k \in 1 .. 15 |-> "lo"]
\* Draws a on the odd picks and odd swaps, b on the even ones.
SeedOf(a, b) == [k \in 1 .. 15 |-> IF k % 2 = 1 THEN a ELSE b]
Seeds == {SeedOf(a, b) : a, b \in {"lo", "hi"}}
SeedHi == [k \in 1 .. 15 |-> "hi"]

\* A deal onto the first two slots.
DealPlayerFront(player, deck) ==
    [id |-> player.id, supabaseId |-> player.supabaseId, isGuest |-> player.isGuest,
     cards |-> SubSeq(deck, 3, Len(deck)),
     deadCards |-> <<>>,
     inPlayCards |-> [i \in Slots |-> IF i = 0 THEN deck[1] ELSE IF i = 1 THEN deck[2] ELSE NoCard]]

\* A participant dealt a deck: [ , cards.shift(), cards.shift(), undefined]
DealPlayer(player, deck) ==
    [id |-> player.id, supabaseId |-> player.supabaseId, isGuest |-> player.isGuest,
     cards |-> SubSeq(deck, 3, Len(deck)),
     deadCards |-> <<>>,
     inPlayCards |-> [i \in Slots |-> IF i = 1 THEN deck[1] ELSE IF i = 2 THEN deck[2] ELSE NoCard]]

\* A construction that seats player2 first.
createNewGameSwapped(id, player1, player2, seed1, seed2) ==
    [id |-> id,
     players |-> [i \in 0 .. 1 |-> IF i = 0 THEN DealPlayer(player2, createFixedDeck(seed2))
                                   ELSE DealPlayer(player1, createFixedDeck(seed1))],
     currentTurn |-> 0]

createNewGame(id, player1, player2, seed1, seed2) ==
    [id |-> id,
     players |-> [i \in 0 .. 1 |-> IF i = 0 THEN DealPlayer(player1, createFixedDeck(seed1))
                                   ELSE DealPlayer(player2, createFixedDeck(seed2))],
     currentTurn |-> 0]

\* ------------------------------------------------------------ server state
\* S is a server state: a record of the module's variables.
\*   clients               connection id -> registry entry (a GamePlayer); its
\*                         piles are the arrays of the participant it was dealt as
\*   sockets               connection id -> the user the handshake attached
\*   queue                 sequence of connection ids
\*   games                 game id -> [id, players, currentTurn]
\*   playersInMatchmaking  set of connection ids
\*   disconnectedPlayers   supabaseId -> Disconnection Record; playerData is
\*                         the reference game.players[playerData] of its game
\*   rateLimits            connection id -> [lastAction, actionCount]
\*   timers                pending setTimeout callbacks of handlePlayerDisconnection
\*   now, nextSweep        Date.now() and the next firing of the setInterval sweep
\*   nextSock, nextGame    the next fresh socket.id and game id
\*   out                   the messages the last handler emitted, in order
\*   last                  the last event and the path its handler took

NoState == [id |-> NoGame, players |-> <<>>, currentTurn |-> 0 - 1]
NoDetail == [attacker |-> 0 - 1, opponent |-> 0 - 1, stat |-> "", lastAttack |-> FALSE]

\* A message: winner is the index of the participant named as winner.
M0 == [to |-> NoSock, type |-> "", gameId |-> NoGame, kill |-> FALSE, damage |-> 0,
       yourIndex |-> 0 - 1, theirIndex |-> 0 - 1, winner |-> 0 - 1, reason |-> "",
       canReconnect |-> FALSE, playerNumber |-> 0 - 1, opponentNumber |-> 0 - 1,
       state |-> NoState]

\* An emit that reaches nobody.
ToSockNone(S, id, m) == <<>>

\* sockets.get(id)?.emit(m)
ToSock(S, id, m) == IF id \in DOMAIN S.sockets THEN <<[m EXCEPT !.to = id]>> ELSE <<>>

\* The piles of a registry entry created by io.on('connection'): [], [], []
NoPiles == [cards |-> <<>>, deadCards |-> <<>>, inPlayCards |-> [i \in Slots |-> NoCard]]

\* players: [player1, player2] holds the registry's objects, and the copy a
\* reconnection registers holds the same arrays: what a handler does to the
\* piles of game.players[i] shows in the registry entry of its connection.
SharePiles(S, game) ==
    LET seat(id) == {i \in 0 .. 1 : game.players[i].id = id}
        shared(id) ==
            IF seat(id) = {} THEN S.clients[id]
            ELSE LET player == game.players[Min(seat(id))]
                 IN [S.clients[id] EXCEPT !.cards = player.cards,
                                          !.deadCards = player.deadCards,
                                          !.inPlayCards = player.inPlayCards]
    IN [S EXCEPT !.clients = [id \in DOMAIN S.clients |-> shared(id)]]

Begin(S) == [S EXCEPT !.out = <<>>]
End(S, op, sock, gid, res) ==
    [S EXCEPT !.last = [op |-> op, sock |-> sock, gid |-> gid, res |-> res,
                        final |-> NoState, detail |-> NoDetail, type |-> ""]]

\* A lookup that takes every connection for the turn owner.
FindTurnOwner(game, socketId) == game.currentTurn

\* game.players.findIndex(p => p.id === socketId)
FindIndex(game, socketId) ==
    IF game.players[0].id = socketId THEN 0
    ELSE IF game.players[1].id = socketId THEN 1
    ELSE 0 - 1

\* A lookup that finds no game.
findNoGame(S, socketId) == NoGame

\* games.entries() iterates in insertion order: game ids grow with creation.
findGameByPlayerId(S, socketId) ==
    LET gs == {g \in DOMAIN S.games : FindIndex(S.games[g], socketId) # 0 - 1}
    IN IF gs = {} THEN NoGame ELSE Min(gs)

cleanupQueue(S) ==
    LET valid(socketId) == /\ socketId \in DOMAIN S.sockets
                           /\ socketId \in DOMAIN S.clients
                           /\ findGameByPlayerId(S, socketId) = NoGame
    IN [S EXCEPT !.queue = SelectSeq(@, valid)]

\* The limit object checkRateLimit reads: the stored one, or a fresh one.
RateLimitOf(S, socketId) ==
    IF socketId \in DOMAIN S.rateLimits THEN S.rateLimits[socketId]
    ELSE [lastAction |-> 0, actionCount |-> 0]

\* A test that compares the count before it is incremented.
RateLimitAcceptsLate(S, socketId) ==
    LET limit == RateLimitOf(S, socketId)
    IN \/ S.now - limit.lastAction > RATE_LIMIT_WINDOW
       \/ limit.actionCount <= MAX_ACTIONS_PER_WINDOW

\* TRUE when the action is accepted
RateLimitAccepts(S, socketId) ==
    LET limit == RateLimitOf(S, socketId)
    IN \/ S.now - limit.lastAction > RATE_LIMIT_WINDOW
       \/ limit.actionCount + 1 <= MAX_ACTIONS_PER_WINDOW

\* A guard that moves the start of the window to every accepted action.
checkRateLimitSliding(S, socketId) ==
    LET limit == RateLimitOf(S, socketId) IN
    IF S.now - limit.lastAction > RATE_LIMIT_WINDOW
    THEN [S EXCEPT !.rateLimits = Put(@, socketId, [lastAction |-> S.now, actionCount |-> 1])]
    ELSE IF limit.actionCount + 1 > MAX_ACTIONS_PER_WINDOW
         THEN IF socketId \in DOMAIN S.rateLimits
              THEN [S EXCEPT !.rateLimits[socketId].actionCount = @ + 1]
              ELSE S
         ELSE [S EXCEPT !.rateLimits =
                   Put(@, socketId, [lastAction |-> S.now,
                                     actionCount |-> limit.actionCount + 1])]

\* The rate-limit table after checkRateLimit(socketId); a rejected action has
\* incremented the stored object in place.
checkRateLimit(S, socketId) ==
    LET limit == RateLimitOf(S, socketId) IN
    IF S.now - limit.lastAction > RATE_LIMIT_WINDOW
    THEN [S EXCEPT !.rateLimits = Put(@, socketId, [lastAction |-> S.now, actionCount |-> 1])]
    ELSE IF limit.actionCount + 1 > MAX_ACTIONS_PER_WINDOW
         THEN IF socketId \in DOMAIN S.rateLimits
              THEN [S EXCEPT !.rateLimits[socketId].actionCount = @ + 1]
              ELSE S
         ELSE [S EXCEPT !.rateLimits =
                   Put(@, socketId, [limit EXCEPT !.actionCount = @ + 1])]

\* ------------------------------------------------------- reconnection manager
\* A test that grants the grace period to every registered connection.
CanReconnectAnyone(S, socketId) == socketId \in DOMAIN S.clients

\* client && client.supabaseId && !client.isGuest
CanReconnect(S, socketId) ==
    /\ socketId \in DOMAIN S.clients
    /\ S.clients[socketId].supabaseId # Null
    /\ ~S.clients[socketId].isGuest

handlePlayerDisconnection(S, socketId) ==
    LET gid == findGameByPlayerId(S, socketId) IN
    IF gid = NoGame THEN S ELSE
    LET game == S.games[gid]
        playerIndex == FindIndex(game, socketId)
    IN
    IF playerIndex = 0 - 1 THEN S ELSE
    LET opponentIndex == 1 - playerIndex
        opponent == game.players[opponentIndex]
    IN
    IF CanReconnect(S, socketId)
    THEN LET sid == S.clients[socketId].supabaseId IN
         [S EXCEPT
            !.disconnectedPlayers =
                Put(@, sid, [gameId |-> gid, playerData |-> playerIndex,
                             disconnectTime |-> S.now, opponentSocketId |-> opponent.id]),
            !.out = @ \o ToSock(S, opponent.id,
                        [M0 EXCEPT !.type = "opponentDisconnected", !.canReconnect = TRUE]),
            !.timers = @ \cup {[supabaseId |-> sid, gameId |-> gid,
                                due |-> S.now + RECONNECTION_TIMEOUT,
                                opponent |-> opponentIndex]}]
    ELSE [S EXCEPT
            !.games = Remove(@, gid),
            !.out = @ \o ToSock(S, opponent.id,
                        [M0 EXCEPT !.type = "gameOver", !.gameId = gid,
                                   !.reason = "opponent_disconnected",
                                   !.winner = opponentIndex])
                      \o ToSock(S, opponent.id,
                        [M0 EXCEPT !.type = "opponentDisconnected", !.canReconnect = FALSE])]

\* The setTimeout callback of handlePlayerDisconnection. It closes over the
\* disconnected client (supabaseId), the game (id) and the opponent (winner).
OnTimeout(S0, timer) ==
    LET S == [Begin(S0) EXCEPT !.timers = @ \ {timer}]
        sid == timer.supabaseId
    IN
    IF sid \in DOMAIN S.disconnectedPlayers /\ S.disconnectedPlayers[sid].gameId = timer.gameId
    THEN LET disconnectedData == S.disconnectedPlayers[sid]
             S1 == [S EXCEPT !.disconnectedPlayers = Remove(@, sid),
                             !.games = Remove(@, timer.gameId)]
             S2 == [S1 EXCEPT
                      !.out = @ \o ToSock(S1, disconnectedData.opponentSocketId,
                                  [M0 EXCEPT !.type = "gameOver", !.gameId = timer.gameId,
                                             !.reason = "opponent_disconnected",
                                             !.winner = timer.opponent])
                                \o ToSock(S1, disconnectedData.opponentSocketId,
                                  [M0 EXCEPT !.type = "opponentDisconnected",
                                             !.canReconnect = FALSE])]
         IN End(S2, "timeout", NoSock, timer.gameId, "forfeit")
    ELSE End(S, "timeout", NoSock, timer.gameId, "stale")

\* A grace period that ends with the first clock advance.
ExpiredAtOnce(S, disconnectedData) == S.now - disconnectedData.disconnectTime > 0

\* Date.now() - disconnectedData.disconnectTime > RECONNECTION_TIMEOUT
Expired(S, disconnectedData) ==
    S.now - disconnectedData.disconnectTime > RECONNECTION_TIMEOUT

\* A failed attempt that leaves the record in place.
KeepRecord(S, id) == S

\* disconnectedPlayers.delete(user.id)
DropRecord(S, id) == [S EXCEPT !.disconnectedPlayers = Remove(@, id)]

\* The result of attemptReconnection: the state it leaves and what it returns.
attemptReconnection(S, socketId, user) ==
    IF user.id \notin DOMAIN S.disconnectedPlayers THEN [S |-> S, ok |-> FALSE] ELSE
    LET disconnectedData == S.disconnectedPlayers[user.id] IN
    IF disconnectedData.gameId \notin DOMAIN S.games
    THEN [S |-> DropRecord(S, user.id), ok |-> FALSE]
    ELSE
    IF Expired(S, disconnectedData)
    THEN [S |-> DropRecord(S, user.id), ok |-> FALSE]
    ELSE
    LET gid == disconnectedData.gameId
        game == S.games[gid]
        playerData == game.players[disconnectedData.playerData]
        playerIndex == FindIndex(game, playerData.id)
    IN
    IF playerIndex = 0 - 1 THEN [S |-> S, ok |-> FALSE] ELSE
    LET opponentIndex == 1 - playerIndex
        S1 == [S EXCEPT
                 !.games[gid].players[playerIndex].id = socketId,
                 !.clients = Put(@, socketId,
                     [id |-> socketId, supabaseId |-> playerData.supabaseId,
                      isGuest |-> playerData.isGuest, gameId |-> gid,
                      cards |-> playerData.cards, deadCards |-> playerData.deadCards,
                      inPlayCards |-> playerData.inPlayCards]),
                 !.sockets = Put(@, socketId, user)]
        game1 == S1.games[gid]
        opp == game1.players[opponentIndex].id
        S2 == [S1 EXCEPT
                 !.out = @ \o <<[M0 EXCEPT !.to = socketId, !.type = "gameReconnected",
                                           !.gameId = gid, !.state = game1,
                                           !.playerNumber = playerIndex,
                                           !.opponentNumber = opponentIndex]>>
                           \o ToSock(S1, opp, [M0 EXCEPT !.type = "opponentReconnected"])
                           \o <<[M0 EXCEPT !.to = socketId, !.type = "syncState",
                                           !.gameId = gid, !.state = game1]>>
                           \o ToSock(S1, opp, [M0 EXCEPT !.type = "syncState",
                                                         !.gameId = gid, !.state = game1]),
                 !.disconnectedPlayers = Remove(@, user.id)]
    IN [S |-> S2, ok |-> TRUE]

\* ---------------------------------------------------------- connection registry
\* io.on('connection'): user is what the handshake attached to the socket.
OnConnection(S0, user) ==
    LET S == Begin(S0)
        socketId == S.nextSock
        r == attemptReconnection([S EXCEPT !.nextSock = @ + 1], socketId, user)
    IN
    IF r.ok THEN End(r.S, "connection", socketId, r.S.clients[socketId].gameId, "reconnected")
    ELSE End([r.S EXCEPT
                !.sockets = Put(@, socketId, user),
                !.clients = Put(@, socketId,
                    [id |-> socketId,
                     supabaseId |-> IF user.isGuest THEN Null ELSE user.id,
                     isGuest |-> user.isGuest, gameId |-> NoGame,
                     cards |-> NoPiles.cards, deadCards |-> NoPiles.deadCards,
                     inPlayCards |-> NoPiles.inPlayCards])],
             "connection", socketId, NoGame, "fresh")

\* A disconnect that leaves the participant record in the registry.
OnDisconnectKeepsClient(S0, socketId) ==
    LET S == Begin(S0)
        S1 == handlePlayerDisconnection(S, socketId)
        S2 == [S1 EXCEPT
                 !.playersInMatchmaking = @ \ {socketId},
                 !.sockets = Remove(@, socketId),
                 !.rateLimits = Remove(@, socketId),
                 !.queue = SelectSeq(@, LAMBDA id : id # socketId)]
    IN End(cleanupQueue(S2), "disconnect", socketId,
           findGameByPlayerId(S, socketId), "done")

\* A disconnect that leaves the queue as it is.
OnDisconnectKeepsQueue(S0, socketId) ==
    LET S == Begin(S0)
        S1 == handlePlayerDisconnection(S, socketId)
        S2 == [S1 EXCEPT
                 !.playersInMatchmaking = @ \ {socketId},
                 !.clients = Remove(@, socketId),
                 !.sockets = Remove(@, socketId),
                 !.rateLimits = Remove(@, socketId)]
    IN End(S2, "disconnect", socketId, findGameByPlayerId(S, socketId), "done")

\* socket.on('disconnect')
OnDisconnect(S0, socketId) ==
    LET S == Begin(S0)
        S1 == handlePlayerDisconnection(S, socketId)
        idx == IF Contains(S1.queue, socketId)
               THEN Min({i \in 1 .. Len(S1.queue) : S1.queue[i] = socketId}) ELSE 0
        S2 == [S1 EXCEPT
                 !.playersInMatchmaking = @ \ {socketId},
                 !.clients = Remove(@, socketId),
                 !.sockets = Remove(@, socketId),
                 !.rateLimits = Remove(@, socketId),
                 !.queue = IF idx = 0 THEN @ ELSE RemoveAt(@, idx)]
    IN End(cleanupQueue(S2), "disconnect", socketId,
           findGameByPlayerId(S, socketId), "done")

\* ------------------------------------------------------------- matchmaking queue
\* A scan that leaves the opponent it finds at the front of the queue.
FindOpponentKeeps(S, socketId, q) ==
    LET valid == {i \in 1 .. Len(q) :
                     /\ q[i] # socketId
                     /\ q[i] \in DOMAIN S.sockets
                     /\ q[i] \in DOMAIN S.clients
                     /\ q[i] \notin S.playersInMatchmaking
                     /\ findGameByPlayerId(S, q[i]) = NoGame}
    IN IF valid = {} THEN [queue |-> <<>>, opponentId |-> NoSock]
       ELSE [queue |-> SubSeq(q, Min(valid), Len(q)), opponentId |-> q[Min(valid)]]

\* A strict dequeue: the front entry is the opponent or nobody is.
FindOpponentStrict(S, socketId, q) ==
    IF Len(q) = 0 THEN [queue |-> q, opponentId |-> NoSock]
    ELSE IF /\ Head(q) # socketId
            /\ Head(q) \in DOMAIN S.sockets
            /\ Head(q) \in DOMAIN S.clients
            /\ Head(q) \notin S.playersInMatchmaking
            /\ findGameByPlayerId(S, Head(q)) = NoGame
         THEN [queue |-> Tail(q), opponentId |-> Head(q)]
         ELSE [queue |-> Tail(q), opponentId |-> NoSock]

\* The while loop of tryToMatch: shift candidates off the queue until one is valid.
RECURSIVE FindOpponent(_, _, _)
FindOpponent(S, socketId, q) ==
    IF Len(q) = 0 THEN [queue |-> q, opponentId |-> NoSock]
    ELSE LET candidate == Head(q) IN
         IF /\ candidate # socketId
            /\ candidate \in DOMAIN S.sockets
            /\ candidate \in DOMAIN S.clients
            /\ candidate \notin S.playersInMatchmaking
            /\ findGameByPlayerId(S, candidate) = NoGame
         THEN [queue |-> Tail(q), opponentId |-> candidate]
         ELSE FindOpponent(S, socketId, Tail(q))

PushAlways(q, id) == Append(q, id)

\* queue.push(id) unless queue.includes(id)
PushUnique(q, id) == IF Contains(q, id) THEN q ELSE Append(q, id)

\* createNewGame has no throw statement and always returns two players; it fails
\* only when the catalog imported from outside this source does (strains.forEach
\* reading card.Class of a missing entry), which is the input S.throws.
createNewGameThrows(S) == S.throws

matchFoundSame(gameId, gameState, playerNumber, opponentNumber) ==
    [M0 EXCEPT !.type = "matchFound", !.gameId = gameId, !.state = gameState,
               !.playerNumber = playerNumber, !.opponentNumber = playerNumber]

\* emit('matchFound', { gameId, gameState, opponent, playerNumber, opponentNumber })
matchFound(gameId, gameState, playerNumber, opponentNumber) ==
    [M0 EXCEPT !.type = "matchFound", !.gameId = gameId, !.state = gameState,
               !.playerNumber = playerNumber, !.opponentNumber = opponentNumber]

\* A clearing that forgets the opponent's mark.
ClearMarksOne(T, socketId, opponentId) ==
    [T EXCEPT !.playersInMatchmaking = @ \ {socketId}]

\* playersInMatchmaking.delete(socketId); playersInMatchmaking.delete(opponentId)
ClearMarks(T, socketId, opponentId) ==
    [T EXCEPT !.playersInMatchmaking = @ \ {socketId, opponentId}]

\* The state tryToMatch leaves, and the path it took.
tryToMatch(S, socketId, seed1, seed2) ==
    IF socketId \in S.playersInMatchmaking THEN [S |-> S, res |-> "in_matchmaking"] ELSE
    IF findGameByPlayerId(S, socketId) # NoGame THEN [S |-> S, res |-> "in_game"] ELSE
    LET S1 == cleanupQueue(S) IN
    IF Len(S1.queue) = 0
    THEN [S |-> [S1 EXCEPT !.queue = PushUnique(@, socketId)], res |-> "queued"]
    ELSE
    LET scan == FindOpponent(S1, socketId, S1.queue)
        opponentId == scan.opponentId
        S2 == [S1 EXCEPT !.queue = scan.queue]
    IN
    IF opponentId = NoSock
    THEN [S |-> [S2 EXCEPT !.queue = PushUnique(@, socketId)], res |-> "queued"]
    ELSE
    LET S3 == [S2 EXCEPT !.playersInMatchmaking = @ \cup {socketId, opponentId}]
        unmark(T) == ClearMarks(T, socketId, opponentId)
    IN
    IF /\ socketId \in DOMAIN S3.clients /\ opponentId \in DOMAIN S3.clients
       /\ socketId \in DOMAIN S3.sockets /\ opponentId \in DOMAIN S3.sockets
    THEN LET player1 == S3.clients[socketId]
             player2 == S3.clients[opponentId]
         IN
         IF createNewGameThrows(S3)
         THEN [S |-> unmark([S3 EXCEPT
                        !.queue = PushUnique(PushUnique(@, socketId), opponentId)]),
               res |-> "failed"]
         ELSE
         LET gameId == S3.nextGame
             gameState == createNewGame(gameId, player1, player2, seed1, seed2)
             found(n) == matchFound(gameId, gameState, n, 1 - n)
             sync == [M0 EXCEPT !.type = "syncState", !.gameId = gameId,
                                !.state = gameState]
         IN [S |-> unmark([SharePiles(S3, gameState) EXCEPT
                      !.nextGame = @ + 1,
                      !.games = Put(@, gameId, gameState),
                      !.clients[socketId].gameId = gameId,
                      !.clients[opponentId].gameId = gameId,
                      !.out = @ \o <<[found(0) EXCEPT !.to = socketId],
                                     [found(1) EXCEPT !.to = opponentId],
                                     [sync EXCEPT !.to = socketId],
                                     [sync EXCEPT !.to = opponentId]>>]),
             res |-> "matched"]
    ELSE LET back(q, id) == IF id \in DOMAIN S3.sockets /\ id \in DOMAIN S3.clients
                            THEN PushUnique(q, id) ELSE q
         IN [S |-> unmark([S3 EXCEPT !.queue = back(back(@, socketId), opponentId)]),
             res |-> "invalid_players"]

ErrorTo(socketId, reason) == <<[M0 EXCEPT !.to = socketId, !.type = "error", !.reason = reason]>>

\* socket.on('joinQueue'): payloadOk is the outcome of the payload and username checks.
OnJoinQueue(S0, socketId, payloadOk, seed1, seed2) ==
    LET S == Begin(S0) IN
    IF ~payloadOk
    THEN End([S EXCEPT !.out = @ \o ErrorTo(socketId, "invalid_payload")],
             "joinQueue", socketId, NoGame, "invalid_payload")
    ELSE IF findGameByPlayerId(S, socketId) # NoGame
    THEN End([S EXCEPT !.out = @ \o ErrorTo(socketId, "already_in_game")],
             "joinQueue", socketId, NoGame, "in_game")
    ELSE IF socketId \in S.playersInMatchmaking
    THEN End(S, "joinQueue", socketId, NoGame, "in_matchmaking")
    ELSE LET r == tryToMatch(S, socketId, seed1, seed2)
         IN End(r.S, "joinQueue", socketId,
                IF r.res = "matched" THEN S.nextGame ELSE NoGame, r.res)

\* ------------------------------------------------------------ game session engine
validateAttackInput(detail) ==
    /\ detail.attacker >= 0 /\ detail.attacker <= 3
    /\ detail.opponent >= 0 /\ detail.opponent <= 3
    /\ detail.stat # ""
    /\ detail.lastAttack \in BOOLEAN

\* A deck test that never finds the deck empty.
DeckNeverEmpty(player) == FALSE

\* game.players[opponentIndex].cards.length === 0
DeckEmpty(player) == Len(player.cards) = 0

\* inPlayCards.every((c) => !c)
AllEmpty(inPlayCards) == \A i \in Slots : inPlayCards[i] = NoCard

\* A placement in slot 3, whatever it holds.
PlaceCardLast(inPlayCards, newCard) == [inPlayCards EXCEPT ![3] = newCard]

\* for (i = 0; i < 4; i++) if (!inPlayCards[i]) { inPlayCards[i] = newCard; break; }
PlaceCard(inPlayCards, newCard) ==
    LET free == {i \in Slots : inPlayCards[i] = NoCard}
    IN IF free = {} THEN inPlayCards ELSE [inPlayCards EXCEPT ![Min(free)] = newCard]

\* A draw that takes no card.
DrawCardNothing(player) == player

\* const newCard = player.cards.shift(); if (newCard) place it
DrawCard(player) ==
    IF Len(player.cards) = 0 THEN player
    ELSE [player EXCEPT !.cards = Tail(@),
                        !.inPlayCards = PlaceCard(@, Head(player.cards))]

\* A subtraction without the clamp at 0.
DamageUnclamped(defender, attackerStat) == [defender EXCEPT !.hp = @ - attackerStat]

\* defender.hp -= attackerStat; if (defender.hp <= 0) defender.hp = 0
Damage(defender, attackerStat) ==
    LET hp == defender.hp - attackerStat
    IN [defender EXCEPT !.hp = IF hp <= 0 THEN 0 ELSE hp]

\* An eviction that leaves the defender in its slot.
EvictKeep(player, slot, defender) == [player EXCEPT !.deadCards = Append(@, defender)]

\* An eviction that starts the dead pile anew.
EvictForget(player, slot, defender) ==
    [player EXCEPT !.inPlayCards[slot] = NoCard, !.deadCards = <<defender>>]

\* "Handle death": evict the defender and append it to the dead pile
Evict(player, slot, defender) ==
    [player EXCEPT !.inPlayCards[slot] = NoCard, !.deadCards = Append(@, defender)]

\* An end-of-turn test that takes every attack for the last of its turn.
AlwaysEndsTurn(detail) == TRUE

\* if (detail.lastAttack)
EndsTurn(detail) == detail.lastAttack

\* socket.on('attack')
OnAttack(S0, socketId, gameId, detail) ==
    LET S == checkRateLimit(Begin(S0), socketId)
        reject(res) == End(S, "attack", socketId, gameId, res)
    IN
    IF ~RateLimitAccepts(S0, socketId)
    THEN End([S EXCEPT !.out = @ \o ErrorTo(socketId, "rate_limited")],
             "attack", socketId, gameId, "rate_limited")
    ELSE IF ~validateAttackInput(detail)
    THEN End([S EXCEPT !.out = @ \o ErrorTo(socketId, "invalid_attack")],
             "attack", socketId, gameId, "invalid_input")
    ELSE IF gameId \notin DOMAIN S.games THEN reject("no_game")
    ELSE
    LET game == S.games[gameId]
        playerIndex == FindIndex(game, socketId)
    IN
    IF playerIndex = 0 - 1 \/ playerIndex # game.currentTurn THEN reject("not_turn") ELSE
    LET opponentIndex == 1 - playerIndex
        attacker == game.players[playerIndex].inPlayCards[detail.attacker]
        defender == game.players[opponentIndex].inPlayCards[detail.opponent]
    IN
    IF attacker = NoCard \/ defender = NoCard THEN reject("no_card")
    ELSE IF attacker.index = UndefIdx \/ attacker.index \notin DOMAIN strains
    THEN reject("bad_index")
    ELSE IF StatValue(strains[attacker.index], detail.stat) = 0 THEN reject("bad_stat")
    ELSE IF defender.hp <= 0 THEN reject("dead_defender")
    ELSE
    LET attackerStat == StatValue(strains[attacker.index], detail.stat)
        hit == Damage(defender, attackerStat)
        isKilled == defender.hp - attackerStat <= 0
        opp == game.players[opponentIndex].id
        info == [M0 EXCEPT !.type = "attack", !.gameId = gameId, !.kill = isKilled,
                           !.damage = attackerStat]
        S1 == [S EXCEPT
                 !.games[gameId].players[opponentIndex].inPlayCards[detail.opponent] = hit,
                 !.out = @ \o <<[info EXCEPT !.to = socketId,
                                             !.yourIndex = detail.attacker,
                                             !.theirIndex = detail.opponent]>>
                           \o ToSock(S, opp, [info EXCEPT !.yourIndex = detail.opponent,
                                                          !.theirIndex = detail.attacker])]
        S2 == IF isKilled
              THEN [S1 EXCEPT !.games[gameId].players[opponentIndex] =
                                  Evict(@, detail.opponent, hit)]
              ELSE S1
        loser == S2.games[gameId].players[opponentIndex]
        over == [M0 EXCEPT !.type = "gameOver", !.gameId = gameId, !.winner = playerIndex]
    IN
    IF isKilled /\ AllEmpty(loser.inPlayCards) /\ DeckEmpty(loser)
    THEN [SharePiles(S2, S2.games[gameId]) EXCEPT
            !.out = @ \o <<[over EXCEPT !.to = socketId]>> \o ToSock(S, opp, over),
            !.games = Remove(@, gameId),
            !.rateLimits = Remove(Remove(@, socketId), opp),
            !.last = [op |-> "attack", sock |-> socketId, gid |-> gameId,
                      res |-> "win", final |-> S2.games[gameId],
                      detail |-> detail, type |-> ""]]
    ELSE
    LET forced == isKilled /\ AllEmpty(loser.inPlayCards)
        note == [M0 EXCEPT !.type = "gameMessage", !.gameId = gameId,
                           !.reason = "forced_draw"]
        S3 == IF forced
              THEN [S2 EXCEPT
                      !.games[gameId].players[opponentIndex] = DrawCard(@),
                      !.out = @ \o <<[note EXCEPT !.to = socketId]>> \o ToSock(S, opp, note)]
              ELSE S2
        S4 == IF EndsTurn(detail)
              THEN [S3 EXCEPT !.games[gameId].currentTurn = opponentIndex]
              ELSE S3
        sync == [M0 EXCEPT !.type = "syncState", !.gameId = gameId,
                           !.state = S4.games[gameId]]
        T == End([SharePiles(S4, S4.games[gameId]) EXCEPT
                     !.out = @ \o <<[sync EXCEPT !.to = socketId]>>
                                \o ToSock(S, opp, sync)],
                 "attack", socketId, gameId, "accepted")
    IN [T EXCEPT !.last.detail = detail]

\* socket.on('makeMove'); type is detail.type
OnMakeMove(S0, socketId, gameId, type) ==
    LET S == checkRateLimit(Begin(S0), socketId)
        reject(res) == End(S, "makeMove", socketId, gameId, res)
    IN
    IF ~RateLimitAccepts(S0, socketId)
    THEN End([S EXCEPT !.out = @ \o ErrorTo(socketId, "rate_limited")],
             "makeMove", socketId, gameId, "rate_limited")
    ELSE IF gameId \notin DOMAIN S.games THEN reject("no_game")
    ELSE
    LET game == S.games[gameId]
        playerIndex == FindIndex(game, socketId)
    IN
    IF playerIndex = 0 - 1 \/ playerIndex # game.currentTurn THEN reject("not_turn") ELSE
    LET S1 == IF type = "drawCard"
              THEN [S EXCEPT !.games[gameId].players[playerIndex] = DrawCard(@)]
              ELSE S
        S2 == [S1 EXCEPT !.games[gameId].currentTurn = 1 - playerIndex]
        opp == S2.games[gameId].players[S2.games[gameId].currentTurn].id
        sync == [M0 EXCEPT !.type = "syncState", !.gameId = gameId,
                           !.state = S2.games[gameId]]
        T == End([SharePiles(S2, S2.games[gameId]) EXCEPT
                     !.out = @ \o <<[sync EXCEPT !.to = socketId]>>
                                \o ToSock(S, opp, sync)],
                 "makeMove", socketId, gameId, "accepted")
    IN [T EXCEPT !.last.type = type]

\* A validation that looks only at the gameId the registry holds.
validateGameStateLax(S, gameId) ==
    IF gameId \notin DOMAIN S.games THEN FALSE ELSE
    LET game == S.games[gameId] IN
    \A i \in 0 .. 1 :
       game.players[i].id \in DOMAIN S.clients =>
          LET client == S.clients[game.players[i].id]
          IN ~(client.gameId # NoGame /\ client.gameId # gameId)

\* ------------------------------------------------------------ periodic maintenance
validateGameState(S, gameId) ==
    IF gameId \notin DOMAIN S.games THEN FALSE ELSE
    LET game == S.games[gameId] IN
    /\ \A i \in 0 .. 1 : /\ game.players[i].id \in DOMAIN S.sockets
                         /\ game.players[i].id \in DOMAIN S.clients
    /\ \A i \in 0 .. 1 :
          LET client == S.clients[game.players[i].id]
          IN ~(client.gameId # NoGame /\ client.gameId # gameId)

\* The notifications of resolveGameConflicts for the games from gameId on.
RECURSIVE ConflictNotices(_, _, _)
ConflictNotices(S, gamesToRemove, gameId) ==
    IF gameId >= S.nextGame THEN <<>>
    ELSE (IF gameId \in gamesToRemove
          THEN LET over == [M0 EXCEPT !.type = "gameOver", !.gameId = gameId,
                                      !.reason = "game_state_conflict"]
               IN ToSock(S, S.games[gameId].players[0].id, over)
                  \o ToSock(S, S.games[gameId].players[1].id, over)
          ELSE <<>>)
         \o ConflictNotices(S, gamesToRemove, gameId + 1)

\* A resolution that notifies but leaves the games in the table.
resolveGameConflictsKeep(S) ==
    LET gamesToRemove == {g \in DOMAIN S.games : ~validateGameState(S, g)}
    IN [S EXCEPT !.out = @ \o ConflictNotices(S, gamesToRemove, 1)]

resolveGameConflicts(S) ==
    LET gamesToRemove == {g \in DOMAIN S.games : ~validateGameState(S, g)}
    IN [S EXCEPT !.out = @ \o ConflictNotices(S, gamesToRemove, 1),
                 !.games = [g \in DOMAIN S.games \ gamesToRemove |-> S.games[g]]]

\* The setInterval callback
OnSweep(S0) ==
    LET S == Begin(S0)
        S1 == resolveGameConflicts(cleanupQueue(S))
        expired == {u \in DOMAIN S1.disconnectedPlayers :
                       S1.now - S1.disconnectedPlayers[u].disconnectTime > RECONNECTION_TIMEOUT}
        stale == {id \in DOMAIN S1.rateLimits :
                     S1.now - S1.rateLimits[id].lastAction > RATE_LIMIT_WINDOW * 10}
        S2 == [S1 EXCEPT
                 !.disconnectedPlayers = [u \in DOMAIN @ \ expired |-> @[u]],
                 !.rateLimits = [id \in DOMAIN @ \ stale |-> @[id]],
                 !.playersInMatchmaking = {id \in @ : id \in DOMAIN S1.sockets},
                 !.nextSweep = @ + SWEEP_INTERVAL]
    IN End(S2, "sweep", NoSock, NoGame,
           IF DOMAIN S2.games = DOMAIN S.games THEN "clean" ELSE "removed")

\* The clock advances by d; no handler runs.
OnTick(S0, d) ==
    End([Begin(S0) EXCEPT !.now = @ + d], "tick", NoSock, NoGame, "done")

\* ------------------------------------------------------------------ the server
VARIABLES clients, sockets, queue, games, playersInMatchmaking, disconnectedPlayers,
          rateLimits, timers, now, nextSweep, nextSock, nextGame, out, last,
          moves, ticks, plan, atDisconnect, accepted

vars == <<catalog, clients, sockets, queue, games, playersInMatchmaking, disconnectedPlayers,
          rateLimits, timers, now, nextSweep, nextSock, nextGame, out, last,
          moves, ticks, plan, atDisconnect, accepted>>

St == [clients |-> clients, sockets |-> sockets, queue |-> queue, games |-> games,
       playersInMatchmaking |-> playersInMatchmaking,
       disconnectedPlayers |-> disconnectedPlayers, rateLimits |-> rateLimits,
       timers |-> timers, now |-> now, nextSweep |-> nextSweep,
       nextSock |-> nextSock, nextGame |-> nextGame, out |-> out, last |-> last,
       throws |-> FALSE]

\* History: for every Disconnection Record, the session it names as it was when
\* the record was written.
Snapshots(T) ==
    [u \in DOMAIN T.disconnectedPlayers |->
        IF /\ T.last.op = "disconnect"
           /\ T.last.gid # NoGame
           /\ T.last.sock \in DOMAIN clients
           /\ clients[T.last.sock].supabaseId = u
        THEN games[T.last.gid]
        ELSE atDisconnect[u]]

\* The server moves to state T.
Becomes(T) ==
    /\ catalog' = catalog
    /\ atDisconnect' = Snapshots(T)
    /\ clients' = T.clients
    /\ sockets' = T.sockets
    /\ queue' = T.queue
    /\ games' = T.games
    /\ playersInMatchmaking' = T.playersInMatchmaking
    /\ disconnectedPlayers' = T.disconnectedPlayers
    /\ rateLimits' = T.rateLimits
    /\ timers' = T.timers
    /\ now' = T.now
    /\ nextSweep' = T.nextSweep
    /\ nextSock' = T.nextSock
    /\ nextGame' = T.nextGame
    /\ out' = T.out
    /\ last' = T.last

\* The state after construction: empty tables, the sweep scheduled.
Fresh ==
    [clients |-> <<>>, sockets |-> <<>>, queue |-> <<>>, games |-> <<>>,
     playersInMatchmaking |-> {}, disconnectedPlayers |-> <<>>, rateLimits |-> <<>>,
     timers |-> {}, now |-> StartTime, nextSweep |-> StartTime + SWEEP_INTERVAL,
     nextSock |-> 1, nextGame |-> 1, out |-> <<>>, throws |-> FALSE,
     last |-> [op |-> "start", sock |-> NoSock, gid |-> NoGame, res |-> "done",
               final |-> NoState, detail |-> NoDetail, type |-> ""]]

\* The server is in state T.
IsState(T) ==
    /\ clients = T.clients
    /\ sockets = T.sockets
    /\ queue = T.queue
    /\ games = T.games
    /\ playersInMatchmaking = T.playersInMatchmaking
    /\ disconnectedPlayers = T.disconnectedPlayers
    /\ rateLimits = T.rateLimits
    /\ timers = T.timers
    /\ now = T.now
    /\ nextSweep = T.nextSweep
    /\ nextSock = T.nextSock
    /\ nextGame = T.nextGame
    /\ out = T.out
    /\ last = T.last

Init ==
    /\ catalog = FullCatalog
    /\ IsState(Fresh)
    /\ moves = 0 /\ ticks = 0 /\ plan = <<>> /\ atDisconnect = <<>> /\ accepted = <<>>

\* The identities the verifier returns: two durable users and a guest token.
Users == {[id |-> "u1", isGuest |-> FALSE], [id |-> "u2", isGuest |-> FALSE],
          [id |-> "guest_1", isGuest |-> TRUE]}

\* The attack payloads: every valid shape, one with a slot out of range and
\* one with a blank stat name.
Details == [attacker : Slots, opponent : Slots, stat : StatNames, lastAttack : BOOLEAN]
           \cup {[attacker |-> 4, opponent |-> 0, stat |-> "thc", lastAttack |-> FALSE],
                 [attacker |-> 1, opponent |-> 1, stat |-> "", lastAttack |-> FALSE]}

\* The attack payloads of the lobby specification: slot 1 strikes slot 1, with
\* a killing last attack or a wounding attack that keeps the turn.
LobbyDetails ==
    {[attacker |-> 1, opponent |-> 1, stat |-> "thc", lastAttack |-> TRUE],
     [attacker |-> 1, opponent |-> 1, stat |-> "cbd", lastAttack |-> FALSE]}

MoveTypes == {"drawCard", "pass"}

\* socketId has sent fewer than MaxBurst actions at the current clock value.
BurstRoom(socketId) ==
    RateLimitOf(St, socketId).lastAction = now
        => RateLimitOf(St, socketId).actionCount < MaxBurst

\* The games in which it is socketId's turn.
TurnGames(socketId) ==
    {g \in DOMAIN games : games[g].players[games[g].currentTurn].id = socketId}

Connect ==
    /\ nextSock <= MaxSockets
    /\ \E user \in Users : \E T \in {OnConnection(St, user)} : Becomes(T)
    /\ UNCHANGED <<moves, ticks, plan, accepted>>

Disconnect ==
    /\ \E socketId \in DOMAIN sockets : \E T \in {OnDisconnect(St, socketId)} : Becomes(T)
    /\ UNCHANGED <<moves, ticks, plan, accepted>>

JoinQueue ==
    /\ \E socketId \in DOMAIN sockets :
          \E T \in {OnJoinQueue(St, socketId, TRUE, SeedLo, SeedHi)} :
             T.nextGame <= MaxGames + 1 /\ Becomes(T)
    /\ UNCHANGED <<moves, ticks, plan, accepted>>

\* An attack sent by the turn owner of a game.
Attack ==
    /\ moves < MaxMoves
    /\ \E socketId \in DOMAIN sockets : \E gameId \in TurnGames(socketId) :
          \E detail \in LobbyDetails : \E T \in {OnAttack(St, socketId, gameId, detail)} :
             BurstRoom(socketId) /\ Becomes(T)
    /\ moves' = moves + 1
    /\ UNCHANGED <<ticks, plan, accepted>>

\* A draw sent by the turn owner of a game.
MakeMove ==
    /\ moves < MaxMoves
    /\ \E socketId \in DOMAIN sockets : \E gameId \in TurnGames(socketId) :
          \E T \in {OnMakeMove(St, socketId, gameId, "drawCard")} :
             BurstRoom(socketId) /\ Becomes(T)
    /\ moves' = moves + 1
    /\ UNCHANGED <<ticks, plan, accepted>>

Timeout ==
    /\ \E timer \in timers :
          timer.due <= now /\ \E T \in {OnTimeout(St, timer)} : Becomes(T)
    /\ UNCHANGED <<moves, ticks, plan, accepted>>

Sweep ==
    /\ nextSweep <= now
    /\ \E T \in {OnSweep(St)} : Becomes(T)
    /\ UNCHANGED <<moves, ticks, plan, accepted>>

\* Time passes once every callback that is due has run.
Tick ==
    /\ ticks < MaxTicks
    /\ \A timer \in timers : timer.due > now
    /\ nextSweep > now
    /\ \E T \in {OnTick(St, TickMs)} : Becomes(T)
    /\ ticks' = ticks + 1
    /\ UNCHANGED <<moves, plan, accepted>>

Next ==
    \/ Connect
    \/ Disconnect
    \/ JoinQueue
    \/ Attack
    \/ MakeMove
    \/ Timeout
    \/ Sweep
    \/ Tick

Spec == Init /\ [][Next]_vars

\* ----------------------------------------------------- the session engine alone
\* One event of a script: <<"connect", user>>, <<"joinQueue", socketId>>,
\* <<"attack", socketId, gameId, detail>>, <<"makeMove", socketId, gameId, type>>
\* or <<"tick", d>>.
Apply(S, e) ==
    CASE e[1] = "connect" -> OnConnection(S, e[2])
      [] e[1] = "joinQueue" -> OnJoinQueue(S, e[2], TRUE, SeedLo, SeedHi)
      [] e[1] = "attack" -> OnAttack(S, e[2], e[3], e[4])
      [] e[1] = "makeMove" -> OnMakeMove(S, e[2], e[3], e[4])
      [] e[1] = "tick" -> OnTick(S, e[2])

\* A pause that opens a new rate-limit window.
Pause == <<"tick", RATE_LIMIT_WINDOW + 1>>

\* Connections 1 (u1), 2 (u2) and 3 (a guest); 2 queues, 1 joins and is matched
\* with 2 in game 1.
Opening ==
    << <<"connect", [id |-> "u1", isGuest |-> FALSE]>>,
       <<"connect", [id |-> "u2", isGuest |-> FALSE]>>,
       <<"connect", [id |-> "guest_1", isGuest |-> TRUE]>>,
       <<"joinQueue", 2>>, <<"joinQueue", 1>>, Pause >>

Kill(slot) == [attacker |-> 1, opponent |-> slot, stat |-> "thc", lastAttack |-> FALSE]

\* Both participants draw twice: every battlefield slot is occupied.
Buildup ==
    << <<"makeMove", 1, 1, "drawCard">>, <<"makeMove", 2, 1, "drawCard">>,
       <<"makeMove", 1, 1, "drawCard">>, <<"makeMove", 2, 1, "drawCard">>, Pause >>

\* Connection 1 kills six cards of connection 2, which is left with one card on
\* the battlefield and one in the deck.
Endgame ==
    << <<"attack", 1, 1, Kill(1)>>, <<"attack", 1, 1, Kill(2)>>,
       <<"attack", 1, 1, Kill(0)>>, Pause,
       <<"attack", 1, 1, Kill(0)>>, <<"attack", 1, 1, Kill(0)>>,
       <<"attack", 1, 1, Kill(0)>>, Pause >>

\* The runs of the engine specification open with one of three plans.
Plans == {Opening, Opening \o Buildup, Opening \o Endgame}

InitGame ==
    /\ catalog = FullCatalog
    /\ IsState(Fresh)
    /\ moves = 0 /\ ticks = 0 /\ plan \in Plans /\ atDisconnect = <<>> /\ accepted = <<>>

\* The next event of the plan happens.
Setup ==
    /\ plan # <<>>
    /\ \E T \in {Apply(St, Head(plan))} : Becomes(T)
    /\ plan' = Tail(plan)
    /\ UNCHANGED <<moves, ticks, accepted>>

\* The payloads sent by a connection that does not own the turn: the handler
\* reads nothing of them but their shape.
Rejected == {Kill(1), [attacker |-> 4, opponent |-> 0, stat |-> "thc", lastAttack |-> FALSE]}

\* An attack sent by any connection, for any game id; the turn owner sends any
\* payload.
AttackAny ==
    /\ plan = <<>>
    /\ moves < MaxEvents
    /\ \E socketId \in DOMAIN sockets, gameId \in 1 .. MaxGames :
          \E detail \in IF gameId \in TurnGames(socketId) THEN Details ELSE Rejected :
             \E T \in {OnAttack(St, socketId, gameId, detail)} : Becomes(T)
    /\ moves' = moves + 1
    /\ UNCHANGED <<ticks, plan, accepted>>

\* A move sent by any connection, for any game id, of any type.
MakeMoveAny ==
    /\ plan = <<>>
    /\ moves < MaxEvents
    /\ \E socketId \in DOMAIN sockets, gameId \in 1 .. MaxGames, type \in MoveTypes :
          \E T \in {OnMakeMove(St, socketId, gameId, type)} : Becomes(T)
    /\ moves' = moves + 1
    /\ UNCHANGED <<ticks, plan, accepted>>

NextGame ==
    \/ Setup
    \/ AttackAny
    \/ MakeMoveAny

SpecGame == InitGame /\ [][NextGame]_vars

\* ------------------------------------------------ moves while a participant is away
\* The engine after a plan, with moves of any connection and disconnects; no
\* grace period ends.
NextGrace ==
    \/ Setup
    \/ MakeMoveAny
    \/ Disconnect

SpecGrace == InitGame /\ [][NextGrace]_vars

\* ------------------------------------------------------- grace periods that end
\* The runs open with a match that leaves connection 2 one card on the
\* battlefield and one in the deck.
InitLive ==
    /\ catalog = FullCatalog
    /\ IsState(Fresh)
    /\ moves = 0 /\ ticks = 0 /\ plan = Opening \o Endgame
    /\ atDisconnect = <<>> /\ accepted = <<>>

\* A connection closes once the plan is over.
Leave ==
    /\ plan = <<>>
    /\ Disconnect

\* A user connects again once the plan is over.
Return ==
    /\ plan = <<>>
    /\ nextSock <= MaxSockets + MaxReturns
    /\ \E user \in Users : \E T \in {OnConnection(St, user)} : Becomes(T)
    /\ UNCHANGED <<moves, ticks, plan, accepted>>

\* The turn owner strikes slot 0 or 1 of the other battlefield and keeps the turn.
Strike ==
    /\ plan = <<>>
    /\ moves < MaxStrikes
    /\ \E socketId \in DOMAIN sockets : \E gameId \in TurnGames(socketId) :
          \E slot \in 0 .. 1 : \E T \in {OnAttack(St, socketId, gameId, Kill(slot))} :
             Becomes(T)
    /\ moves' = moves + 1
    /\ UNCHANGED <<ticks, plan, accepted>>

\* Time passes while a grace period is running, once every callback that is
\* due has run.
Pass ==
    /\ plan = <<>>
    /\ timers # {}
    /\ \A timer \in timers : timer.due > now
    /\ nextSweep > now
    /\ \E T \in {OnTick(St, TickMs)} : Becomes(T)
    /\ UNCHANGED <<moves, ticks, plan, accepted>>

NextLive ==
    \/ Setup
    \/ Leave
    \/ Return
    \/ Strike
    \/ Timeout
    \/ Sweep
    \/ Pass

\* The timers and the interval callback fire when they are due, and the clock
\* does not stop.
SpecLive ==
    /\ InitLive /\ [][NextLive]_vars
    /\ WF_vars(Timeout) /\ WF_vars(Sweep) /\ WF_vars(Pass)

\* ------------------------------------------------- a transport that repeats itself
\* The disconnect event of a connection whose disconnect was already processed
\* is delivered again.
Redisconnect ==
    /\ moves < MaxReplays
    /\ \E socketId \in (1 .. nextSock - 1) \ DOMAIN sockets :
          \E T \in {OnDisconnect(St, socketId)} : Becomes(T)
    /\ moves' = moves + 1
    /\ UNCHANGED <<ticks, plan, accepted>>

\* The runs in which every event arrives before the clock advances: no delayed
\* check and no sweep is due.
NextReplay ==
    \/ Connect
    \/ Disconnect
    \/ JoinQueue
    \/ Redisconnect

SpecReplay == Init /\ [][NextReplay]_vars

\* ------------------------------------------------------------ the abuse guard
\* Connections 1 (u1) and 2 (u2); 2 queues, 1 joins and is matched with 2 in
\* game 1.
Duel ==
    << <<"connect", [id |-> "u1", isGuest |-> FALSE]>>,
       <<"connect", [id |-> "u2", isGuest |-> FALSE]>>,
       <<"joinQueue", 2>>, <<"joinQueue", 1>> >>

InitGuard ==
    /\ catalog = FullCatalog
    /\ IsState(Fresh)
    /\ moves = 0 /\ ticks = 0 /\ plan = Duel /\ atDisconnect = <<>> /\ accepted = <<>>

\* History: the actions for which checkRateLimit returned true, with their
\* connection and time, the latest last; Lapse drops those more than a window
\* back.
Logged(T) ==
    IF T.last.res = "rate_limited" THEN accepted
    ELSE Append(accepted, [sock |-> T.last.sock, at |-> T.now])

\* An attack by either participant, in or out of turn, on the session or on a
\* game id that names no session.
GuardedAttack ==
    /\ plan = <<>>
    /\ moves < MaxActions
    /\ \E socketId \in DOMAIN sockets, gameId \in 1 .. MaxGames :
          \E T \in {OnAttack(St, socketId, gameId, Kill(1))} :
             Becomes(T) /\ accepted' = Logged(T)
    /\ moves' = moves + 1
    /\ UNCHANGED <<ticks, plan>>

\* A draw by either participant, in or out of turn.
GuardedMove ==
    /\ plan = <<>>
    /\ moves < MaxActions
    /\ \E socketId \in DOMAIN sockets, gameId \in DOMAIN games :
          \E T \in {OnMakeMove(St, socketId, gameId, "drawCard")} :
             Becomes(T) /\ accepted' = Logged(T)
    /\ moves' = moves + 1
    /\ UNCHANGED <<ticks, plan>>

\* The clock advances by just over half a rate-limit window.
Lapse ==
    /\ plan = <<>>
    /\ ticks < MaxLapses
    /\ \E T \in {OnTick(St, RATE_LIMIT_WINDOW \div 2 + 1)} :
          Becomes(T) /\ accepted' = SelectSeq(accepted, LAMBDA a : T.now - a.at <= RATE_LIMIT_WINDOW)
    /\ ticks' = ticks + 1
    /\ UNCHANGED <<moves, plan>>

NextGuard ==
    \/ Setup
    \/ GuardedAttack
    \/ GuardedMove
    \/ Lapse

SpecGuard == InitGuard /\ [][NextGuard]_vars

\* ------------------------------------------------- the lobby with a failing catalog
\* A joinQueue during which createNewGame throws if it is reached.
JoinQueueThrows ==
    /\ \E socketId \in DOMAIN sockets :
          \E T \in {OnJoinQueue([St EXCEPT !.throws = TRUE], socketId, TRUE,
                                SeedLo, SeedHi)} : Becomes(T)
    /\ UNCHANGED <<moves, ticks, plan, accepted>>

NextFault == Connect \/ Disconnect \/ JoinQueue \/ JoinQueueThrows

SpecFault == Init /\ [][NextFault]_vars

\* ---------------------------------------------- the lobby over a short catalog
\* The server was started with a catalog that lacks one card.
InitShort ==
    /\ catalog \in ShortCatalogs
    /\ IsState(Fresh)
    /\ moves = 0 /\ ticks = 0 /\ plan = <<>> /\ atDisconnect = <<>> /\ accepted = <<>>

NextShort == Connect \/ Disconnect \/ JoinQueue

SpecShort == InitShort /\ [][NextShort]_vars

\* ------------------------------------------------------- the dealing of decks
\* The server was started with a catalog that fills every rarity bucket.
InitDeck ==
    /\ catalog \in {FullCatalog, RichCatalog}
    /\ IsState(Fresh)
    /\ moves = 0 /\ ticks = 0 /\ plan = <<>> /\ atDisconnect = <<>> /\ accepted = <<>>

\* A joinQueue whose match, if it makes one, deals with any of the seeds.
JoinQueueAny ==
    /\ \E socketId \in DOMAIN sockets : \E seed1, seed2 \in Seeds :
          \E T \in {OnJoinQueue(St, socketId, TRUE, seed1, seed2)} :
             T.nextGame <= MaxGames + 1 /\ Becomes(T)
    /\ UNCHANGED <<moves, ticks, plan, accepted>>

NextDeck == Connect \/ JoinQueueAny

SpecDeck == InitDeck /\ [][NextDeck]_vars

\* ------------------------------------------------------------------- properties
\* The sessions in the session table that have socketId as a participant.
SessionsOf(socketId) == {g \in DOMAIN games : FindIndex(games[g], socketId) # 0 - 1}

\* C1: no connection id is a participant of two sessions that are in the
\* session table at the same time.
C1_OneSessionPerConnection ==
    \A socketId \in 1 .. MaxSockets : Cardinality(SessionsOf(socketId)) <= 1

\* A participant of a live session asked to join the queue while another
\* connection was waiting in it, and was turned away.
C1_Witness ==
    /\ last.op = "joinQueue" /\ last.res = "in_game"
    /\ SessionsOf(last.sock) # {}
    /\ \E i \in 1 .. Len(queue) : queue[i] # last.sock /\ queue[i] \in DOMAIN sockets

\* The connection id bound to the turn owner of session g.
Owner(g) == games[g].players[games[g].currentTurn].id

\* C2: an attack or a move sent by a connection that is not the turn owner of
\* the named session leaves that session as it was: decks, battlefields, dead
\* piles, every HP and the turn owner index.
C2_NonOwnerChangesNothing ==
    [][(/\ last'.op \in {"attack", "makeMove"}
        /\ last'.gid \in DOMAIN games
        /\ Owner(last'.gid) # last'.sock)
       => (/\ last'.gid \in DOMAIN games'
           /\ games'[last'.gid] = games[last'.gid])]_vars

\* The participant that does not own the turn sent an attack after the session
\* had seen an accepted action.
C2_Witness ==
    /\ last.op = "attack" /\ last.res = "not_turn"
    /\ last.gid \in DOMAIN games
    /\ FindIndex(games[last.gid], last.sock) = 1 - games[last.gid].currentTurn
    /\ games[last.gid].players[0].deadCards # <<>>

\* The step is an accepted attack.
Struck == last'.op = "attack" /\ last'.res \in {"accepted", "win"}

\* Of an accepted attack: the session before it, and the session after it (the
\* record the handler holds when it deletes the session, if it ends it).
Before == games[last'.gid]
After == IF last'.res = "win" THEN last'.final ELSE games'[last'.gid]

\* Of an accepted attack: the index of the attacking participant, the defending
\* participant before and after, the two cards, the stat value s and the HP h.
AttackerIdx == Before.currentTurn
Victim == Before.players[1 - AttackerIdx]
VictimAfter == After.players[1 - AttackerIdx]
AttackerCard == Before.players[AttackerIdx].inPlayCards[last'.detail.attacker]
DefenderCard == Victim.inPlayCards[last'.detail.opponent]
AttackerStat == StatValue(strains[AttackerCard.index], last'.detail.stat)
Killed == DefenderCard.hp - AttackerStat <= 0

\* The eviction leaves the defending participant without a card on the
\* battlefield.
Emptied == \A i \in Slots \ {last'.detail.opponent} : Victim.inPlayCards[i] = NoCard

\* The attack-result reached the attacker and the defending participant, each
\* with the flag killed = k.
AttackResultSays(k) ==
    /\ \A r \in {last'.sock, Victim.id} :
          \E i \in 1 .. Len(out') : out'[i].type = "attack" /\ out'[i].to = r
    /\ \A i \in 1 .. Len(out') : out'[i].type = "attack" => out'[i].kill = k

\* What an accepted attack does to the dead pile and reports, given what it
\* leaves in the defender's slot.
AttackEffect(slotAfterKill) ==
    /\ DefenderCard # NoCard /\ DefenderCard.hp > 0
    /\ AttackResultSays(Killed)
    /\ IF Killed
       THEN /\ VictimAfter.inPlayCards[last'.detail.opponent] = slotAfterKill
            /\ VictimAfter.deadCards = Append(Victim.deadCards, [DefenderCard EXCEPT !.hp = 0])
       ELSE /\ VictimAfter.inPlayCards[last'.detail.opponent] =
                   [DefenderCard EXCEPT !.hp = @ - AttackerStat]
            /\ VictimAfter.deadCards = Victim.deadCards

Got(r, t) == \E i \in 1 .. Len(out') : out'[i].type = t /\ out'[i].to = r

InLowestEmpty(b, c) ==
    [b EXCEPT ![Min({i \in Slots : b[i] = NoCard})] = c]

\* C5: an accepted attack that evicts the defender and leaves the defending
\* participant with an empty battlefield and a non-empty deck pops exactly the
\* front card of that deck into the lowest-indexed empty slot, and the turn
\* owner index changes in that step only if the attack was flagged as the last.
C5_ForcedDraw ==
    [][(Struck /\ Killed /\ Emptied /\ Victim.cards # <<>>) =>
         (/\ last'.res = "accepted"
          /\ VictimAfter.cards = Tail(Victim.cards)
          /\ VictimAfter.inPlayCards =
                InLowestEmpty([Victim.inPlayCards EXCEPT ![last'.detail.opponent] = NoCard],
                              Head(Victim.cards))
          /\ After.currentTurn = IF last'.detail.lastAttack
                                 THEN 1 - AttackerIdx ELSE AttackerIdx)]_vars

\* An attack not flagged as the last emptied the defending battlefield, the
\* forced draw filled slot 0 and the attacker still owns the turn.
C5_Witness ==
    /\ last.op = "attack" /\ last.res = "accepted" /\ ~last.detail.lastAttack
    /\ \E i \in 1 .. Len(out) : out[i].reason = "forced_draw"
    /\ Owner(last.gid) = last.sock
    /\ LET victim == games[last.gid].players[1 - games[last.gid].currentTurn]
       IN /\ victim.inPlayCards[0] # NoCard
          /\ \A i \in 1 .. 3 : victim.inPlayCards[i] = NoCard

\* The step is an accepted action of the turn owner of session g.
OwnerActed(g) == last'.gid = g /\ last'.sock = Owner(g) /\ last'.res = "accepted"

\* The turn owner index of every session is 0 or 1 after the step and, for a
\* session the step keeps, changes only when flips(g) allows it, to the other
\* index; an accepted attack not flagged as the last leaves it unchanged.
TurnRule(flips(_)) ==
    \A g \in DOMAIN games' :
       /\ games'[g].currentTurn \in {0, 1}
       /\ g \in DOMAIN games =>
            /\ games'[g].currentTurn # games[g].currentTurn =>
                  /\ OwnerActed(g) /\ flips(g)
                  /\ games'[g].currentTurn = 1 - games[g].currentTurn
            /\ (OwnerActed(g) /\ last'.op = "attack" /\ ~last'.detail.lastAttack) =>
                  games'[g].currentTurn = games[g].currentTurn

LastAttack(g) == last'.op = "attack" /\ last'.detail.lastAttack
AnyMove(g) == last'.op = "makeMove"
DrawMove(g) == last'.op = "makeMove" /\ last'.type = "drawCard"
LastAttackOrMove(g) == LastAttack(g) \/ AnyMove(g)
LastAttackOrDraw(g) == LastAttack(g) \/ DrawMove(g)

\* C6: the turn owner index of every session is always 0 or 1; it changes only
\* by an accepted attack of the turn owner flagged as the last or by a move of
\* the turn owner (a draw, or a move of any other type, which draws nothing),
\* each time to the other index; an accepted attack that is not flagged leaves
\* it unchanged.
C6_TurnChanges == [][TurnRule(LastAttackOrMove)]_vars

\* C6 as stated: among the moves, only a draw changes the turn owner index.
C6_OnlyDrawMoves == [][TurnRule(LastAttackOrDraw)]_vars

\* The turn came back to index 0 by an attack of participant 1 flagged as the
\* last of its turn.
C6_Witness ==
    /\ last.op = "attack" /\ last.res = "accepted" /\ last.detail.lastAttack
    /\ games[last.gid].currentTurn = 0
    /\ games[last.gid].players[1].id = last.sock

\* The step is an accepted draw of the turn owner.
Drew == last'.op = "makeMove" /\ last'.type = "drawCard" /\ last'.res = "accepted"

\* Of an accepted move: the moving participant before and after.
Mover == games[last'.gid].players[games[last'.gid].currentTurn]
MoverAfter == games'[last'.gid].players[games[last'.gid].currentTurn]

\* C7: a draw of the turn owner moves the front card of the owner's deck into
\* the lowest-indexed empty slot of the owner's battlefield when the deck is
\* not empty and a slot is empty; when the deck is empty or the four slots are
\* occupied, the owner's deck and battlefield are unchanged.
C7_DrawMove ==
    [][Drew =>
         IF Mover.cards # <<>> /\ (\E i \in Slots : Mover.inPlayCards[i] = NoCard)
         THEN /\ MoverAfter.cards = Tail(Mover.cards)
              /\ MoverAfter.inPlayCards = InLowestEmpty(Mover.inPlayCards, Head(Mover.cards))
         ELSE /\ MoverAfter.cards = Mover.cards
              /\ MoverAfter.inPlayCards = Mover.inPlayCards]_vars

\* The cards participant p of session g holds in its deck, on its battlefield
\* and in its dead pile.
Held(g, p) ==
    Len(games[g].players[p].cards) + Len(games[g].players[p].deadCards)
    + Cardinality({i \in Slots : games[g].players[p].inPlayCards[i] # NoCard})

\* A participant with four cards on the battlefield drew: the deck lost its
\* front card and the participant holds seven cards.
C7_Witness ==
    /\ last.op = "makeMove" /\ last.type = "drawCard" /\ last.res = "accepted"
    /\ LET p == 1 - games[last.gid].currentTurn
       IN /\ \A i \in Slots : games[last.gid].players[p].inPlayCards[i] # NoCard
          /\ Held(last.gid, p) = 7

\* The cards on the battlefield of a player, and the HP of a rarity.
InPlay(player) == {player.inPlayCards[i] : i \in Slots} \ {NoCard}
Cards(seq) == {seq[i] : i \in 1 .. Len(seq)}

\* C8: in every session of the session table every battlefield card has
\* 0 < HP <= the HP of its rarity, every deck card has exactly the HP of its
\* rarity and every dead-pile card has HP 0.
C8_HpBounds ==
    \A g \in DOMAIN games : \A p \in 0 .. 1 :
       LET player == games[g].players[p] IN
       /\ \A c \in InPlay(player) : 0 < c.hp /\ c.hp <= evaluateHP(c.index)
       /\ \A c \in Cards(player.cards) : c.hp = evaluateHP(c.index)
       /\ \A c \in Cards(player.deadCards) : c.hp = 0

\* A session holds a wounded card on a battlefield, a dead card and a card
\* that was drawn from the deck after the deal.
C8_Witness ==
    \E g \in DOMAIN games : \E p \in 0 .. 1 :
       LET player == games[g].players[p] IN
       /\ \E c \in InPlay(player) : c.hp < evaluateHP(c.index)
       /\ player.deadCards # <<>>
       /\ Len(player.cards) < 6

\* The catalog indexes of a set of cards.
Indexes(cards) == {c.index : c \in cards}

\* C9: no card of a participant is at once on the battlefield and in the dead
\* pile, and a dead pile changes only by appending.
C9_DeadPile ==
    [][\A g \in DOMAIN games' : \A p \in 0 .. 1 :
          LET player == games'[g].players[p] IN
          /\ Indexes(InPlay(player)) \cap Indexes(Cards(player.deadCards)) = {}
          /\ g \in DOMAIN games =>
               /\ Len(games[g].players[p].deadCards) <= Len(player.deadCards)
               /\ SubSeq(player.deadCards, 1, Len(games[g].players[p].deadCards))
                     = games[g].players[p].deadCards]_vars

\* A dead pile received its third card while its participant still has a card
\* on the battlefield.
C9_Witness ==
    /\ last.op = "attack" /\ last.res = "accepted" /\ last.gid \in DOMAIN games
    /\ \E p \in 0 .. 1 :
          /\ Len(games[last.gid].players[p].deadCards) = 3
          /\ InPlay(games[last.gid].players[p]) # {}
          /\ \E i \in 1 .. Len(out) : out[i].type = "attack" /\ out[i].kill

\* The identity a connection step presented, and its Disconnection Record.
Presented == sockets'[last'.sock]
Record == disconnectedPlayers[Presented.id]

\* C10: a connection presenting a durable identity with a Disconnection Record
\* whose session is in the session table and whose grace period has not
\* elapsed is reconnected: the participant at the recorded index is bound to
\* the new connection id, the registry maps the new id to that participant,
\* the new connection is sent the session snapshot and the record is deleted.
C10_ReconnectionSucceeds ==
    [][(/\ last'.op = "connection"
        /\ ~Presented.isGuest
        /\ Presented.id \in DOMAIN disconnectedPlayers
        /\ Record.gameId \in DOMAIN games
        /\ now - Record.disconnectTime <= RECONNECTION_TIMEOUT)
       => (/\ last'.res = "reconnected"
           /\ Record.gameId \in DOMAIN games'
           /\ games'[Record.gameId].players[Record.playerData].id = last'.sock
           /\ games'[Record.gameId].players[1 - Record.playerData].id
                 = games[Record.gameId].players[1 - Record.playerData].id
           /\ last'.sock \in DOMAIN clients'
           /\ clients'[last'.sock].supabaseId = Presented.id
           /\ clients'[last'.sock].gameId = Record.gameId
           /\ \E i \in 1 .. Len(out') :
                 /\ out'[i].to = last'.sock /\ out'[i].type = "gameReconnected"
                 /\ out'[i].state = games'[Record.gameId]
                 /\ out'[i].playerNumber = Record.playerData
           /\ Presented.id \notin DOMAIN disconnectedPlayers')]_vars

\* Participant 1 of a session that had seen an action came back on a new
\* connection after the clock had advanced.
C10_Witness ==
    /\ last.op = "connection" /\ last.res = "reconnected"
    /\ ticks >= 1 /\ moves = 1
    /\ games[last.gid].players[1].id = last.sock

\* Sessions g and h differ at most in the connection id of participant p.
SameButId(g, h, p) == [g EXCEPT !.players[p].id = h.players[p].id] = h

\* C11, in the case that favours it most: the opponent has stayed connected
\* and no attack or move was sent in the run. When a connection presents a
\* durable identity whose Disconnection Record is younger than the
\* reconnection timeout, the session the record names is in the session table
\* after the step, and it is the session as it was when that identity
\* disconnected, but for the connection id of the participant that came back.
C11_SessionKeptForReturn ==
    [][(/\ last'.op = "connection"
        /\ ~Presented.isGuest
        /\ Presented.id \in DOMAIN disconnectedPlayers
        /\ now - Record.disconnectTime < RECONNECTION_TIMEOUT
        /\ Record.opponentSocketId \in DOMAIN sockets
        /\ moves = 0)
       => (/\ Record.gameId \in DOMAIN games'
           /\ SameButId(atDisconnect[Presented.id], games'[Record.gameId],
                        Record.playerData))]_vars

\* A durable identity came back within the grace period and found its session
\* gone: it was registered as a fresh connection.
C11_Witness ==
    /\ last.op = "connection" /\ last.res = "fresh"
    /\ ~sockets[last.sock].isGuest
    /\ moves = 0
    /\ \E timer \in timers :
          /\ timer.supabaseId = sockets[last.sock].id /\ timer.due > now
          /\ \E id \in DOMAIN clients : clients[id].gameId = timer.gameId

\* A delayed check found the record of its identity and ended the session.
Forfeited == last'.op = "timeout" /\ last'.res = "forfeit"

\* The identity whose record a forfeit deleted, and that record.
Lapsed == CHOOSE u \in DOMAIN disconnectedPlayers : u \notin DOMAIN disconnectedPlayers'
LapsedRecord == disconnectedPlayers[Lapsed]

\* The connection bound to the other participant of the forfeited session.
Survivor == games[last'.gid].players[1 - LapsedRecord.playerData].id

\* C12: when the delayed check of a disconnect finds the Disconnection Record
\* still there, in a session of two different identities, the session is removed from the session table and the record
\* is deleted; the opponent, if its connection is registered, is sent a
\* game-over for "opponent_disconnected" that names the opponent as winner,
\* and after the step the opponent is a participant of no session.
C12_TimeoutForfeits ==
    [][(/\ Forfeited
        /\ last'.gid \in DOMAIN games
        /\ games[last'.gid].players[0].supabaseId # games[last'.gid].players[1].supabaseId)
       => (/\ last'.gid \notin DOMAIN games'
           /\ DOMAIN disconnectedPlayers' = DOMAIN disconnectedPlayers \ {Lapsed}
           /\ LapsedRecord.gameId = last'.gid
           /\ findGameByPlayerId(St, Survivor) = last'.gid
           /\ \A g \in DOMAIN games' : FindIndex(games'[g], Survivor) = 0 - 1
           /\ Survivor \in DOMAIN sockets
                 => \E i \in 1 .. Len(out') :
                       /\ out'[i].to = Survivor /\ out'[i].type = "gameOver"
                       /\ out'[i].reason = "opponent_disconnected"
                       /\ out'[i].winner = 1 - LapsedRecord.playerData)]_vars

\* A forfeit whose session had a connected opponent that was sent nothing.
C12_Witness ==
    /\ last.op = "timeout" /\ last.res = "forfeit"
    /\ out = <<>>
    /\ \E id \in DOMAIN clients : clients[id].gameId = last.gid

\* The delayed check that ran in a timeout step.
Fired == CHOOSE timer \in timers : timer \notin timers'

\* C13: a delayed check ends a session only on the record of the disconnect
\* that scheduled it. In a session of two different identities a record
\* written at another time than the check was scheduled belongs to a later
\* disconnect, after a reconnection deleted the record the check was
\* scheduled for: that check was cancelled and ends nothing.
C13_ReconnectionCancelsTimeout ==
    [][(/\ Forfeited
        /\ atDisconnect[Lapsed].players[0].supabaseId
              # atDisconnect[Lapsed].players[1].supabaseId)
       => LapsedRecord.disconnectTime + RECONNECTION_TIMEOUT = Fired.due]_vars

\* A session ended by a forfeit while a later delayed check for the same
\* session was still pending, for an identity that is away and has no record;
\* the opponent is connected.
C13_Witness ==
    /\ last.op = "timeout" /\ last.res = "forfeit"
    /\ \E timer \in timers :
          /\ timer.gameId = last.gid /\ timer.due > now
          /\ timer.supabaseId \notin DOMAIN disconnectedPlayers
          /\ \A id \in DOMAIN sockets : sockets[id].id # timer.supabaseId
          /\ \E id \in DOMAIN clients : clients[id].gameId = last.gid

\* A registered guest that is a participant of a session disconnects.
GuestLeft ==
    /\ last'.op = "disconnect" /\ last'.gid # NoGame
    /\ last'.sock \in DOMAIN clients /\ clients[last'.sock].isGuest

\* The connection bound to the other participant of the session that was left.
Remaining == games[last'.gid].players[1 - FindIndex(games[last'.gid], last'.sock)].id

\* The opponent is sent a forfeit-win game-over.
ForfeitWinSent ==
    \E i \in 1 .. Len(out') :
       /\ out'[i].to = Remaining /\ out'[i].type = "gameOver"
       /\ out'[i].reason = "opponent_disconnected"
       /\ out'[i].winner = 1 - FindIndex(games[last'.gid], last'.sock)

\* In the step the session is removed, the Disconnection Records stay as they
\* are and no message announces a grace period.
EndedAtOnce ==
    /\ last'.gid \notin DOMAIN games'
    /\ disconnectedPlayers' = disconnectedPlayers
    /\ timers' = timers
    /\ \A i \in 1 .. Len(out') :
          ~(out'[i].type = "opponentDisconnected" /\ out'[i].canReconnect)

\* C14: when a guest participant disconnects mid-session the session is removed
\* in that step, no Disconnection Record is created, no grace period is
\* announced, and the opponent, if its connection is registered, is sent a
\* forfeit-win game-over.
C14_GuestForfeitsAtOnce ==
    [][GuestLeft => (EndedAtOnce /\ (Remaining \in DOMAIN sockets => ForfeitWinSent))]_vars

\* C14 as stated: the opponent is sent the game-over in every case.
C14_OpponentAlwaysTold == [][GuestLeft => (EndedAtOnce /\ ForfeitWinSent)]_vars

\* A guest left a session and its connected opponent was told it won.
C14_Witness ==
    /\ last.op = "disconnect" /\ last.gid # NoGame
    /\ last.gid \notin DOMAIN games
    /\ \E i \in 1 .. Len(out) :
          /\ out[i].type = "gameOver" /\ out[i].reason = "opponent_disconnected"
          /\ out[i].to \in DOMAIN clients
          /\ clients[out[i].to].gameId = last.gid
          /\ ~clients[out[i].to].isGuest
    /\ disconnectedPlayers = <<>>

\* A disconnect event for a connection id that is not registered any more.
Replayed == last'.op = "disconnect" /\ last'.sock \notin DOMAIN sockets

\* C15: a disconnect event processed for a connection id whose disconnect was
\* already processed changes neither the session table nor the Disconnection
\* Records, the queue or the registry, and sends no notification.
C15_ReplayedDisconnectIsNoOp ==
    [][Replayed => (/\ games' = games
                    /\ disconnectedPlayers' = disconnectedPlayers
                    /\ timers' = timers
                    /\ queue' = queue
                    /\ clients' = clients
                    /\ sockets' = sockets
                    /\ playersInMatchmaking' = playersInMatchmaking
                    /\ out' = <<>>)]_vars

\* A replayed disconnect ended a session that was in its grace period and
\* told the opponent that it had won.
C15_Witness ==
    /\ last.op = "disconnect" /\ last.sock \notin DOMAIN sockets
    /\ moves >= 1
    /\ last.gid # NoGame /\ last.gid \notin DOMAIN games
    /\ \E u \in DOMAIN disconnectedPlayers : disconnectedPlayers[u].gameId = last.gid
    /\ \E i \in 1 .. Len(out) : out[i].type = "gameOver"

\* The registry entry io.on('connection') writes for a fresh connection.
FreshEntry(socketId, user) ==
    [id |-> socketId, supabaseId |-> IF user.isGuest THEN Null ELSE user.id,
     isGuest |-> user.isGuest, gameId |-> NoGame,
     cards |-> <<>>, deadCards |-> <<>>, inPlayCards |-> [i \in Slots |-> NoCard]]

Guarded == last'.op \in {"attack", "makeMove"}
Limit == RateLimitOf(St, last'.sock)
Passed == last'.res # "rate_limited"

\* The counter of the sender after the step, unless a game-over deleted it.
LimitBecomes(limit) ==
    \/ last'.res = "win"
    \/ last'.sock \in DOMAIN rateLimits' /\ rateLimits'[last'.sock] = limit

\* The actions of connection s in the log since time t.
Since(s, t) == {i \in 1 .. Len(accepted) : accepted[i].sock = s /\ accepted[i].at >= t}

\* C17: an action that arrives more than a window after the start of the
\* sender's window is accepted and starts a window with count 1; every other
\* action adds one to the count and is accepted exactly when the new count is
\* at most MAX_ACTIONS_PER_WINDOW; the actions accepted since the start of a
\* window are never more than MAX_ACTIONS_PER_WINDOW.
C17_WindowCounter ==
    [][Guarded =>
         /\ IF now - Limit.lastAction > RATE_LIMIT_WINDOW
            THEN Passed /\ LimitBecomes([lastAction |-> now, actionCount |-> 1])
            ELSE /\ Passed <=> Limit.actionCount + 1 <= MAX_ACTIONS_PER_WINDOW
                 /\ LimitBecomes([Limit EXCEPT !.actionCount = @ + 1])
         /\ last'.sock \in DOMAIN rateLimits'
               => Cardinality({i \in 1 .. Len(accepted') :
                                  /\ accepted'[i].sock = last'.sock
                                  /\ accepted'[i].at >= rateLimits'[last'.sock].lastAction})
                     <= MAX_ACTIONS_PER_WINDOW]_vars

\* A connection had MAX_ACTIONS_PER_WINDOW actions accepted in a window that
\* a clock advance did not close, and the next one refused.
C17_Witness ==
    /\ last.op \in {"attack", "makeMove"} /\ last.res = "rate_limited"
    /\ rateLimits[last.sock].actionCount = MAX_ACTIONS_PER_WINDOW + 1
    /\ rateLimits[last.sock].lastAction < now
    /\ Cardinality(Since(last.sock, rateLimits[last.sock].lastAction))
          = MAX_ACTIONS_PER_WINDOW

\* The logged actions of the connection of entry i that were accepted from
\* entry i on and less than a window after it.
InWindowFrom(i) ==
    {j \in i .. Len(accepted) :
        /\ accepted[j].sock = accepted[i].sock
        /\ accepted[j].at - accepted[i].at < RATE_LIMIT_WINDOW}

\* C18: in every interval of one window length that starts with an accepted
\* action of a connection, at most MAX_ACTIONS_PER_WINDOW actions of that
\* connection are accepted.
C18_AtMostNInAnyWindow ==
    \A i \in 1 .. Len(accepted) : Cardinality(InWindowFrom(i)) <= MAX_ACTIONS_PER_WINDOW

\* A connection had six actions accepted within 501 ms.
C18_Witness ==
    \E i \in 1 .. Len(accepted) :
       /\ Cardinality(InWindowFrom(i)) = MAX_ACTIONS_PER_WINDOW + 1
       /\ now - accepted[i].at = RATE_LIMIT_WINDOW \div 2 + 1

\* The sender's window is open and holds MAX_ACTIONS_PER_WINDOW actions or more.
Exhausted ==
    /\ now - Limit.lastAction <= RATE_LIMIT_WINDOW
    /\ Limit.actionCount >= MAX_ACTIONS_PER_WINDOW

\* C19: every attack and every draw-move is counted by the abuse guard,
\* whatever its game id and whoever owns the turn; an action that finds the
\* sender's window exhausted is answered with one rejection to the sender and
\* changes no session, queue, registry or Disconnection Record state.
C19_GuardComesFirst ==
    [][Guarded =>
         /\ last'.res # "win" => /\ last'.sock \in DOMAIN rateLimits'
                                 /\ rateLimits'[last'.sock] # Limit
         /\ Exhausted => /\ last'.res = "rate_limited"
                         /\ out' = ErrorTo(last'.sock, "rate_limited")
                         /\ games' = games
                         /\ queue' = queue
                         /\ playersInMatchmaking' = playersInMatchmaking
                         /\ clients' = clients
                         /\ sockets' = sockets
                         /\ disconnectedPlayers' = disconnectedPlayers
                         /\ timers' = timers]_vars

\* The owner of the turn had an action on its own session refused by the guard.
C19_Witness ==
    /\ last.op \in {"attack", "makeMove"} /\ last.res = "rate_limited"
    /\ last.gid \in DOMAIN games
    /\ games[last.gid].players[games[last.gid].currentTurn].id = last.sock
    /\ out = ErrorTo(last.sock, "rate_limited")

\* ---------------------------------------------------------------------------
\* The number of entries of the queue q that are id.
Occurrences(q, id) == Cardinality({i \in 1 .. Len(q) : q[i] = id})

\* The opponent the scan of tryToMatch dequeues for the connection socketId.
Dequeued(socketId) ==
    FindOpponent(cleanupQueue(St), socketId, cleanupQueue(St).queue).opponentId

\* C20: when createNewGame fails inside tryToMatch after a valid opponent was
\* dequeued, the queue tryToMatch leaves holds the requesting connection exactly
\* once and the dequeued opponent exactly once.
C20_BothBackInQueue ==
    [][(last'.op = "joinQueue" /\ last'.res = "failed") =>
         /\ Dequeued(last'.sock) \in DOMAIN sockets \ {last'.sock}
         /\ Occurrences(queue', last'.sock) = 1
         /\ Occurrences(queue', Dequeued(last'.sock)) = 1]_vars

\* A match failed with a third connection waiting: three connections are queued,
\* the requester behind the one that waited and ahead of its opponent.
C20_Witness ==
    /\ last.op = "joinQueue" /\ last.res = "failed"
    /\ Len(queue) = 3
    /\ queue[2] = last.sock

\* ---------------------------------------------------------------------------
\* The cards of a rarity a deck takes, and a catalog with too few of one rarity.
Quota(class) == IF class \in {"Uncommon", "Common"} THEN 2 ELSE 1
BucketShort ==
    \E class \in {"Legendary", "Epic", "Ultra Rare", "Rare", "Uncommon", "Common"} :
       Len(byClass(class)) < Quota(class)

\* A card with no catalog index, or dealt with HP 0.
Blank(card) == card.index = UndefIdx \/ card.hp = 0

\* C21: over a catalog with a rarity bucket below its quota, a joinQueue that
\* dequeues an opponent adds no session, deals no participant a card without
\* catalog index or with HP 0, and leaves requester and opponent in the queue.
C21_ShortBucketFailsMatch ==
    [][(/\ BucketShort
        /\ last'.op = "joinQueue" /\ last'.res \in {"matched", "failed"}
        /\ Dequeued(last'.sock) # NoSock) =>
         /\ games' = games
         /\ \A g \in DOMAIN games' : \A p \in 0 .. 1 :
               \A card \in InPlay(games'[g].players[p]) \cup Cards(games'[g].players[p].cards) :
                  ~Blank(card)
         /\ Contains(queue', last'.sock)
         /\ Contains(queue', Dequeued(last'.sock))]_vars

\* A session was created over a short catalog: a participant of it holds a card
\* without catalog index and with HP 0, and neither participant is queued.
C21_Witness ==
    /\ BucketShort
    /\ last.op = "joinQueue" /\ last.res = "matched" /\ last.gid \in DOMAIN games
    /\ \E p \in 0 .. 1 :
          \E card \in InPlay(games[last.gid].players[p])
                        \cup Cards(games[last.gid].players[p].cards) :
             card.index = UndefIdx /\ card.hp = 0
    /\ \A p \in 0 .. 1 : ~Contains(queue, games[last.gid].players[p].id)

\* ---------------------------------------------------------------------------
\* Of a joinQueue step: the requester, and a connection that waits in the queue.
Requester == last'.sock
Waiting(a) ==
    /\ Contains(queue, a) /\ a # Requester
    /\ a \in DOMAIN clients /\ a \in DOMAIN sockets
    /\ findGameByPlayerId(St, a) = NoGame

\* The matchFound messages of a step that went to connection id.
FoundFor(id) == {i \in 1 .. Len(out') : out'[i].type = "matchFound" /\ out'[i].to = id}

\* Session g is new, holds a and b, and each of the two got one matchFound
\* naming g, its own index in g and the other index.
PairedIn(g, a, b) ==
    /\ g \notin DOMAIN games
    /\ {games'[g].players[p].id : p \in 0 .. 1} = {a, b}
    /\ \A id \in {a, b} :
          /\ Cardinality(FoundFor(id)) = 1
          /\ \A i \in FoundFor(id) :
                /\ out'[i].gameId = g
                /\ out'[i].playerNumber \in 0 .. 1
                /\ games'[g].players[out'[i].playerNumber].id = id
                /\ out'[i].opponentNumber = 1 - out'[i].playerNumber

\* C22: a valid joinQueue of a registered connection that is in no session,
\* sent while another registered connection that is in no session waits in
\* the queue, creates exactly one session; it holds both, and both are sent
\* matchFound with that session id and mirrored indices, each connection's
\* own index being the index of its participant.
C22_TwoJoinsMakeOneSession ==
    [][(/\ last'.op = "joinQueue" /\ last'.res # "invalid_payload"
        /\ Requester \in DOMAIN clients
        /\ findGameByPlayerId(St, Requester) = NoGame) =>
         \A a \in DOMAIN sockets : Waiting(a) =>
            /\ Cardinality(DOMAIN games' \ DOMAIN games) = 1
            /\ \A g \in DOMAIN games' \ DOMAIN games : PairedIn(g, a, Requester)
            /\ DOMAIN games \subseteq DOMAIN games']_vars

\* Two connections of different identities were matched: the requester got
\* index 0 and the one that waited index 1.
C22_Witness ==
    /\ last.op = "joinQueue" /\ last.res = "matched" /\ last.gid \in DOMAIN games
    /\ games[last.gid].players[0].id = last.sock
    /\ games[last.gid].players[0].supabaseId # games[last.gid].players[1].supabaseId
    /\ \E i, j \in 1 .. Len(out) :
          /\ out[i].type = "matchFound" /\ out[i].to = last.sock
          /\ out[i].playerNumber = 0 /\ out[i].opponentNumber = 1
          /\ out[j].type = "matchFound" /\ out[j].to = games[last.gid].players[1].id
          /\ out[j].playerNumber = 1 /\ out[j].opponentNumber = 0

\* ---------------------------------------------------------------------------
\* Of a joinQueue step that reaches tryToMatch: the queue entries that are
\* connected and in no session, those of them a requester may be paired with,
\* and the position of the earliest of these.
Live(c) ==
    /\ c \in DOMAIN sockets /\ c \in DOMAIN clients
    /\ findGameByPlayerId(St, c) = NoGame
Pairable(c) == Live(c) /\ c # Requester /\ c \notin playersInMatchmaking
Earliest == Min({i \in 1 .. Len(queue) : Pairable(queue[i])})
Scans ==
    /\ last'.op = "joinQueue"
    /\ last'.res \in {"queued", "matched", "failed", "invalid_players"}

\* C23: tryToMatch pairs the requester with the earliest queue entry that is
\* connected, in no session, not in matchmaking and not the requester; when it
\* creates the session, that entry and every entry in front of it have left
\* the queue and the live entries behind it stay in their order. With no such
\* entry nobody is paired and the requester waits in the queue.
C23_FifoScanWithSkip ==
    [][Scans =>
         IF \E i \in 1 .. Len(queue) : Pairable(queue[i])
         THEN /\ last'.res \in {"matched", "failed"}
              /\ last'.res = "matched" =>
                    /\ \E g \in DOMAIN games' \ DOMAIN games :
                          {games'[g].players[p].id : p \in 0 .. 1}
                             = {Requester, queue[Earliest]}
                    /\ queue' = SelectSeq(SubSeq(queue, Earliest + 1, Len(queue)), Live)
              /\ last'.res = "failed" =>
                    /\ games' = games
                    /\ queue'[Len(queue')] = queue[Earliest]
         ELSE /\ last'.res = "queued"
              /\ games' = games
              /\ queue' = <<Requester>>]_vars

\* A session was created while a third connection stays waiting: the queue held
\* more than one entry and the requester was paired with the earliest valid one.
C23_Witness ==
    /\ last.op = "joinQueue" /\ last.res = "matched" /\ last.gid \in DOMAIN games
    /\ Len(queue) = 1
    /\ queue[1] \notin {games[last.gid].players[p].id : p \in 0 .. 1}
    /\ nextSock = 4

\* ---------------------------------------------------------------------------
\* The connections that are participants of a session after the step.
Seated == {games'[g].players[p].id : g \in DOMAIN games', p \in 0 .. 1}

\* C24: after a tryToMatch that creates a session neither of the two paired
\* connections is in the queue, after a disconnect the connection is not in
\* the queue, and after every handler no connection is both in the queue and
\* a participant of a session.
C24_QueuedOrSeated ==
    [][/\ (last'.op = "joinQueue" /\ last'.res = "matched") =>
             \A p \in 0 .. 1 : ~Contains(queue', games'[last'.gid].players[p].id)
       /\ last'.op = "disconnect" => ~Contains(queue', last'.sock)
       /\ \A id \in Seated : ~Contains(queue', id)]_vars

\* A session was created from the connection that waited: both participants
\* are connected and the queue is empty.
C24_Witness ==
    /\ last.op = "joinQueue" /\ last.res = "matched" /\ last.gid \in DOMAIN games
    /\ \A p \in 0 .. 1 : games[last.gid].players[p].id \in DOMAIN sockets
    /\ games[last.gid].players[0].id = last.sock
    /\ queue = <<>>

\* ---------------------------------------------------------------------------
\* Connection r was sent an attack-result and, after it, a state sync.
ResultThenSync(r) ==
    \E i, j \in 1 .. Len(out') :
       /\ i < j
       /\ out'[i].type = "attack" /\ out'[i].to = r
       /\ out'[j].type = "syncState" /\ out'[j].to = r

\* C25: every accepted attack, the one that ends the session included, sends
\* the attacker and the defending participant, if connected, an attack-result
\* and after it a full state sync.
C25_AttackThenSync ==
    [][Struck => \A r \in {last'.sock, Victim.id} \cap DOMAIN sockets : ResultThenSync(r)]_vars

\* An attack ended the session: both participants are connected, both got the
\* attack-result and the game-over, and no state sync was sent.
C25_Witness ==
    /\ last.op = "attack" /\ last.res = "win"
    /\ \A p \in 0 .. 1 :
          /\ last.final.players[p].id \in DOMAIN sockets
          /\ \E i \in 1 .. Len(out) :
                out[i].type = "attack" /\ out[i].to = last.final.players[p].id
          /\ \E i \in 1 .. Len(out) :
                out[i].type = "gameOver" /\ out[i].to = last.final.players[p].id
    /\ \A i \in 1 .. Len(out) : out[i].type # "syncState"

\* ---------------------------------------------------------------------------
\* The step is a terminal win in session g, the forfeit of g at the end of a
\* grace period, or the disconnect of a guest participant of g.
EndsByRule(g) ==
    \/ last'.op = "attack" /\ last'.res = "win" /\ last'.gid = g
    \/ Forfeited /\ last'.gid = g
    \/ GuestLeft /\ last'.gid = g

\* C26: a session leaves the session table only in a step that is a terminal
\* win, a grace timeout that finds the Disconnection Record, or a guest's
\* disconnect; in particular it stays while a disconnected durable participant
\* is inside its grace period.
C26_RemovedOnlyByRule ==
    [][\A g \in DOMAIN games \ DOMAIN games' : EndsByRule(g)]_vars

\* The sweep removed a session whose opponent is connected while the record of
\* its disconnected participant was younger than the reconnection timeout.
C26_Witness ==
    /\ last.op = "sweep" /\ last.res = "removed"
    /\ games = <<>>
    /\ \E u \in DOMAIN disconnectedPlayers :
          /\ now - disconnectedPlayers[u].disconnectTime < RECONNECTION_TIMEOUT
          /\ disconnectedPlayers[u].opponentSocketId \in DOMAIN sockets

\* ---------------------------------------------------------------------------
\* Session g names a connection that the registry does not hold.
Dangling(g) == \E p \in 0 .. 1 : games[g].players[p].id \notin DOMAIN clients

\* C27: after a run of the periodic sweep every session of the session table
\* names registered connections only; each session that named an unregistered
\* one was removed by the sweep, and each of its participants that is
\* connected was sent a game-over.
C27_SweepLeavesNoDangling ==
    [][last'.op = "sweep" =>
         /\ \A g \in DOMAIN games' : \A p \in 0 .. 1 :
               games'[g].players[p].id \in DOMAIN clients'
         /\ \A g \in DOMAIN games : Dangling(g) =>
               /\ g \notin DOMAIN games'
               /\ \A p \in 0 .. 1 :
                     games[g].players[p].id \in DOMAIN sockets =>
                        \E i \in 1 .. Len(out') :
                           /\ out'[i].type = "gameOver"
                           /\ out'[i].to = games[g].players[p].id
                           /\ out'[i].reason = "game_state_conflict"]_vars

\* The sweep removed a session and sent the game-over to its one connected
\* participant.
C27_Witness ==
    /\ last.op = "sweep" /\ last.res = "removed"
    /\ Len(out) = 1
    /\ out[1].type = "gameOver" /\ out[1].reason = "game_state_conflict"
    /\ out[1].to \in DOMAIN sockets

\* ---------------------------------------------------------------------------
\* The rarity table of the deck contract, and the rarities.
Rarities == {"Legendary", "Epic", "Ultra Rare", "Rare", "Uncommon", "Common"}
RarityHP(class) ==
    CASE class = "Common" -> 100 [] class = "Uncommon" -> 120 [] class = "Rare" -> 150
      [] class = "Ultra Rare" -> 175 [] class = "Epic" -> 200 [] class = "Legendary" -> 250

\* The session a joinQueue step created, and the deck participant p of it was
\* dealt: the two cards put on the battlefield, then the cards left in the deck.
Created == CHOOSE g \in DOMAIN games' : g \notin DOMAIN games
DeckOf(p) ==
    <<games'[Created].players[p].inPlayCards[1], games'[Created].players[p].inPlayCards[2]>>
    \o games'[Created].players[p].cards

\* C28: over a catalog that fills every rarity bucket, each deck dealt when a
\* session is created has 8 cards, 1 Legendary, 1 Epic, 1 Ultra Rare, 1 Rare,
\* 2 Uncommon and 2 Common, no catalog index twice, and every card has the HP
\* of its rarity.
C28_DeckQuota ==
    [][(~BucketShort /\ last'.op = "joinQueue" /\ last'.res = "matched") =>
         \A p \in 0 .. 1 :
            /\ Len(DeckOf(p)) = 8
            /\ \A k \in 1 .. 8 :
                  /\ DeckOf(p)[k].index \in DOMAIN strains
                  /\ DeckOf(p)[k].hp = RarityHP(strains[DeckOf(p)[k].index].Class)
            /\ \A class \in Rarities :
                  Cardinality({k \in 1 .. 8 : strains[DeckOf(p)[k].index].Class = class})
                     = Quota(class)
            /\ \A k, m \in 1 .. 8 : DeckOf(p)[k].index = DeckOf(p)[m].index => k = m]_vars

\* A session over the richer catalog whose two decks took different cards of
\* a rarity: one holds the first Legendary card, the other the second.
C28_Witness ==
    /\ catalog = RichCatalog
    /\ last.op = "joinQueue" /\ last.res = "matched" /\ last.gid \in DOMAIN games
    /\ \E c \in InPlay(games[last.gid].players[0]) \cup Cards(games[last.gid].players[0].cards) :
          c.index = 0
    /\ \E c \in InPlay(games[last.gid].players[1]) \cup Cards(games[last.gid].players[1].cards) :
          c.index = 8

\* ---------------------------------------------------------------------------
\* Participant p of the created session was dealt the shuffled deck `deck`:
\* its first card in slot 1, its second in slot 2, slots 0 and 3 empty, the
\* other six in the deck in their order, nothing in the dead pile.
DealtFrom(p, deck) ==
    LET player == games'[Created].players[p] IN
    /\ player.inPlayCards[0] = NoCard /\ player.inPlayCards[3] = NoCard
    /\ player.inPlayCards[1] = deck[1] /\ player.inPlayCards[2] = deck[2]
    /\ Len(player.cards) = 6
    /\ \A k \in 1 .. 6 : player.cards[k] = deck[k + 2]
    /\ player.deadCards = <<>>

\* C29: in a newly created session each participant has battlefield slots 0
\* and 3 empty, the first and second card of its shuffled deck in slots 1 and
\* 2, the remaining six cards in the deck in shuffled order, and an empty
\* dead pile.
C29_InitialBattlefield ==
    [][(last'.op = "joinQueue" /\ last'.res = "matched") =>
         \A p \in 0 .. 1 : \E seed \in Seeds : DealtFrom(p, createFixedDeck(seed))]_vars

\* A new session over the eight-card catalog: both participants have slots 1
\* and 2 filled, six cards in the deck and an empty dead pile, and their
\* decks are in different orders.
C29_Witness ==
    /\ catalog = FullCatalog
    /\ last.op = "joinQueue" /\ last.res = "matched" /\ last.gid \in DOMAIN games
    /\ \A p \in 0 .. 1 :
          /\ Len(games[last.gid].players[p].cards) = 6
          /\ games[last.gid].players[p].deadCards = <<>>
          /\ {i \in Slots : games[last.gid].players[p].inPlayCards[i] # NoCard} = {1, 2}
    /\ games[last.gid].players[0].cards # games[last.gid].players[1].cards

\* ---------------------------------------------------------------------------
\* Of an accepted draw: the connection of the other participant, and a state
\* sync with the session as the step leaves it, sent to connection r.
Waiter == games[last'.gid].players[1 - games[last'.gid].currentTurn].id
SyncedTo(r) ==
    \E i \in 1 .. Len(out') :
       /\ out'[i].type = "syncState" /\ out'[i].to = r
       /\ out'[i].state = games'[last'.gid]

Durable == {"u1", "u2"}

\* C31: every Disconnection Record is eventually deleted when the timeouts and
\* the sweep fire once they are due, also when its session ended by a terminal
\* win and when both participants disconnected.
C31_RecordsEventuallyDeleted ==
    \A u \in Durable :
       (u \in DOMAIN disconnectedPlayers) ~> (u \notin DOMAIN disconnectedPlayers)

\* A terminal win has just removed the session that a Disconnection Record names.
C31_Witness ==
    /\ last.op = "attack" /\ last.res = "win"
    /\ \E u \in DOMAIN disconnectedPlayers : disconnectedPlayers[u].gameId = last.gid
    /\ last.gid \notin DOMAIN games

\* ---------------------------------------------------------------------------
\* The state a second run of the sweep would leave, were it to start at once.
Again == OnSweep(St)

\* C32: a second run of the maintenance sweep right after the first, at the
\* same clock value, leaves the queue, the session table, the Disconnection
\* Records, the rate-limit state and the matchmaking marks as the first run
\* left them and sends no notification.
C32_SweepIdempotent ==
    last.op = "sweep" =>
       /\ Again.queue = queue
       /\ Again.games = games
       /\ Again.disconnectedPlayers = disconnectedPlayers
       /\ Again.rateLimits = rateLimits
       /\ Again.playersInMatchmaking = playersInMatchmaking
       /\ Again.out = <<>>

\* A sweep has just removed a session and told a participant so.
C32_Witness ==
    /\ last.op = "sweep" /\ last.res = "removed"
    /\ \E i \in 1 .. Len(out) : out[i].type = "gameOver"

\* ---------------------------------------------------------------------------
\* C33: between handlers no connection is marked in matchmaking; tryToMatch
\* clears both marks on every path that set them.
C33_NoMarkBetweenHandlers == playersInMatchmaking = {}

\* A join that created a session has returned: both participants are seated
\* and neither is marked.
C33_Witness ==
    /\ last.op = "joinQueue" /\ last.res = "matched"
    /\ last.gid \in DOMAIN games
    /\ \A i \in 0 .. 1 : games[last.gid].players[i].id \notin playersInMatchmaking

\* ---------------------------------------------------------------------------
\* The catalog indexes of the cards a player holds in its deck, on its
\* battlefield and in its dead pile.
HeldIndexes(player) ==
    Indexes(InPlay(player) \cup Cards(player.cards) \cup Cards(player.deadCards))

\* C34: every participant of a session holds 8 cards when the session is
\* created, and no step changes how many cards, or which, a participant of a
\* session holds in its deck, on its battlefield and in its dead pile.
C34_CardsConserved ==
    [][\A g \in DOMAIN games' : \A p \in 0 .. 1 :
          IF g \in DOMAIN games
          THEN /\ Held(g, p)' = Held(g, p)
               /\ HeldIndexes(games'[g].players[p]) = HeldIndexes(games[g].players[p])
          ELSE Held(g, p)' = 8]_vars

\* Both participants of a session have lost a card: each holds seven.
C34_Witness ==
    \E g \in DOMAIN games : \A p \in 0 .. 1 :
       /\ Held(g, p) = 7
       /\ Cardinality(HeldIndexes(games[g].players[p])) = 7

\* ---------------------------------------------------------------------------
\* C35: between handlers every participant of every session in the session
\* table has at least one card on its battlefield.
C35_BattlefieldNeverEmpty ==
    \A g \in DOMAIN games : \A p \in 0 .. 1 : InPlay(games[g].players[p]) # {}

\* A kill emptied a battlefield and the forced draw refilled it: the victim
\* has one card on the battlefield, at full HP, and the session goes on.
C35_Witness ==
    /\ last.op = "attack" /\ last.res = "accepted" /\ last.gid \in DOMAIN games
    /\ \E i \in 1 .. Len(out) : out[i].type = "gameMessage" /\ out[i].reason = "forced_draw"
    /\ \E p \in 0 .. 1 :
          LET player == games[last.gid].players[p] IN
          /\ Cardinality(InPlay(player)) = 1
          /\ \A c \in InPlay(player) : c.hp = evaluateHP(c.index)
          /\ player.deadCards # <<>>

\* ---------------------------------------------------------------------------
\* The game-overs a step sends.
GameOvers == {i \in 1 .. Len(out') : out'[i].type = "gameOver"}

\* C36: a step sends a game-over only for a session that is in the session
\* table when the step begins, and at most one to a connection; a session
\* that has left the table causes no further game-over.
C36_OneGameOver ==
    [][/\ \A i \in GameOvers : out'[i].gameId \in DOMAIN games
       /\ \A i, j \in GameOvers :
             out'[i].to = out'[j].to /\ out'[i].gameId = out'[j].gameId => i = j]_vars

\* Before any sweep, a timeout has sent a game-over to connection 1, which made
\* the attacks of the plan and is still registered: its rate-limit entry is
\* gone because its terminal win of that session deleted it.
C36_Witness ==
    /\ last.op = "timeout" /\ last.res = "forfeit"
    /\ nextSweep = StartTime + SWEEP_INTERVAL
    /\ 1 \in DOMAIN sockets /\ 1 \notin DOMAIN rateLimits
    /\ \E i \in 1 .. Len(out) :
          out[i].type = "gameOver" /\ out[i].gameId = last.gid /\ out[i].to = 1

\* ---------------------------------------------------------------------------
\* C37: when a delayed check forfeits a session, the connection bound to the
\* other participant at that time, if it is registered, is sent the game-over,
\* also when that participant reconnected under a new connection id after the
\* record was written.
C37_BoundOpponentTold ==
    [][(Forfeited /\ last'.gid \in DOMAIN games /\ Survivor \in DOMAIN sockets)
       => \E i \in 1 .. Len(out') :
             out'[i].to = Survivor /\ out'[i].type = "gameOver"]_vars

\* A forfeit took the session of a registered connection of a durable
\* identity, bound to it by a reconnection, and that connection was sent no
\* game-over.
C37_Witness ==
    /\ last.op = "timeout" /\ last.res = "forfeit"
    /\ last.gid \notin DOMAIN games
    /\ \E c \in DOMAIN sockets :
          /\ clients[c].gameId = last.gid
          /\ clients[c].supabaseId \in Durable
          /\ c > 2
          /\ \A i \in 1 .. Len(out) : ~(out[i].to = c /\ out[i].type = "gameOver")

\* ---------------------------------------------------------------------------
\* C38: a session that enters the session table was created by a joinQueue
\* step; its turn owner index is 0, participant 0 is the connection that sent
\* the joinQueue and participant 1 is a connection that was in the queue
\* before the step and is not after it.
C38_RequesterIsParticipantZero ==
    [][\A g \in DOMAIN games' \ DOMAIN games :
          /\ last'.op = "joinQueue"
          /\ games'[g].currentTurn = 0
          /\ games'[g].players[0].id = last'.sock
          /\ games'[g].players[1].id # last'.sock
          /\ Contains(queue, games'[g].players[1].id)
          /\ ~Contains(queue', games'[g].players[1].id)]_vars

\* The second session of a run was just created: participant 0 sent the
\* joinQueue, participant 1 is another connection, and the turn is 0.
C38_Witness ==
    /\ last.op = "joinQueue" /\ last.res = "matched"
    /\ last.gid = 2 /\ last.gid \in DOMAIN games
    /\ games[last.gid].currentTurn = 0
    /\ games[last.gid].players[0].id = last.sock
    /\ games[last.gid].players[1].id # last.sock
    /\ queue = <<>>

\* ---------------------------------------------------------------------------
\* C39: between handlers the connection ids with a transport entry are the
\* connection ids with a participant record, and every participant record
\* carries the connection id it is stored under.
C39_RegistryConsistent ==
    /\ DOMAIN sockets = DOMAIN clients
    /\ \A c \in DOMAIN clients : clients[c].id = c

\* A reconnection has just registered a new connection in place of one that
\* disconnected: it has both entries, under its own id, and the old id has
\* neither.
C39_Witness ==
    /\ last.op = "connection" /\ last.res = "reconnected"
    /\ last.sock \in DOMAIN sockets /\ last.sock \in DOMAIN clients
    /\ clients[last.sock].id = last.sock
    /\ \E c \in 1 .. last.sock - 1 : c \notin DOMAIN sockets /\ c \notin DOMAIN clients

\* ---------------------------------------------------------------------------
\* C40: between handlers the queue holds no connection id twice and every
\* queue entry is a registered connection.
C40_QueueWellFormed ==
    /\ \A i, j \in 1 .. Len(queue) : queue[i] = queue[j] => i = j
    /\ \A i \in 1 .. Len(queue) :
          queue[i] \in DOMAIN sockets /\ queue[i] \in DOMAIN clients

\* A connection is waiting in the queue while another connection has
\* disconnected: the queue holds the one that is registered, once.
C40_Witness ==
    /\ last.op = "disconnect"
    /\ Len(queue) = 1
    /\ queue[1] \in DOMAIN sockets /\ queue[1] # last.sock
    /\ last.sock \notin DOMAIN sockets
====
